---- MODULE Spec2Model ----
(***************************************************************************)
(* StreamKeeper-Node-Backend: an Express proxy in front of the TMDb REST   *)
(* API.  Four routers (generic, movies, TV shows, persons) forward each    *)
(* request to the upstream API through fetchFromTmdb and reshape the       *)
(* answer with the entity classes Media, Movie, TVShow, Person and Review. *)
(*                                                                         *)
(* JavaScript values are modelled as tagged records [t, v]; a JavaScript   *)
(* string is a sequence of symbols, a symbol being one character or a run  *)
(* of letters the program never looks into ("popular", "Movie").           *)
(***************************************************************************)
EXTENDS Integers, Sequences, FiniteSets, TLC

VARIABLES
    env,      \* process.env: TMDB_BASE_URL and TMDB_API_KEY
    load,     \* the traffic explored: "sequential" or "concurrent"
    pc,       \* per request slot: "idle", "waiting" (on the upstream call), "done"
    req,      \* per slot: the inbound request [group, path, query]
    route,    \* per slot: the route that took the request, with req.params
    call,     \* per slot: the axios.get issued for it [url, params], or NoCall
    ncalls,   \* per slot: number of upstream calls issued for the request
    resp,     \* per slot: the response sent [status, body], or NoResp
    nresp,    \* per slot: number of responses sent for the request
    kind,     \* entity construction: the class being constructed
    raw,      \* entity construction: the raw upstream object handed to it
    out       \* entity construction: what `new kind(raw)` produced

vars == <<env, load, pc, req, route, call, ncalls, resp, nresp, kind, raw, out>>
serverVars == <<env, load, pc, req, route, call, ncalls, resp, nresp>>
normVars == <<kind, raw, out>>

(***************************************************************************)
(* Bounds of the model.                                                    *)
(***************************************************************************)
\* longest array the upstream API returns under results, cast or crew
MaxLen == 2
\* number of request slots
MaxReq == 2

(***************************************************************************)
(* JavaScript values.                                                      *)
(***************************************************************************)
Undef == [t |-> "undefined", v |-> 0]
Null == [t |-> "null", v |-> 0]
Num(n) == [t |-> "number", v |-> n]
Str(s) == [t |-> "string", v |-> s]
Arr(s) == [t |-> "array", v |-> s]
Obj(f) == [t |-> "object", v |-> f]
EmptyObj == Obj(<<>>)

\* a == b on two values, without comparing payloads of different types
SameVal(a, b) == a.t = b.t /\ a.v = b.v

\* ToBoolean: what `!x` and `x || y` look at
Truthy(x) ==
    CASE x.t = "undefined" -> FALSE
      [] x.t = "null" -> FALSE
      [] x.t = "number" -> x.v # 0
      [] x.t = "string" -> Len(x.v) > 0
      [] OTHER -> TRUE

\* x || y
OrElse(x, y) == IF Truthy(x) THEN x ELSE y

\* reading a property of undefined or null raises a TypeError
Nullish(x) == x.t \in {"undefined", "null"}

\* x.k for a value x that is not nullish: own properties of an object,
\* undefined for a missing property and for the properties read here of a
\* string, a number or an array
Get(x, k) ==
    IF x.t = "object" /\ k \in DOMAIN x.v THEN x.v[k] ELSE Undef

\* the outcome of evaluating an expression: a value, or a thrown exception
Return(x) == [thrown |-> FALSE, val |-> x]
Throw == [thrown |-> TRUE, val |-> Undef]

(***************************************************************************)
(* models/: the entity classes.  Each operator is `new Class(data)`: the   *)
(* constructed entity, or the TypeError raised while reading a property of *)
(* undefined or null.                                                      *)
(***************************************************************************)
\* a Media whose two image paths are assigned crosswise
MediaSwapsPaths(data) ==
    [id |-> Get(data, "id"),
     mediaType |-> OrElse(Get(data, "media_type"), Str(<<"unknown">>)),
     popularity |-> Get(data, "popularity"),
     overview |-> Get(data, "overview"),
     posterPath |-> Get(data, "backdrop_path"),
     backdropPath |-> Get(data, "poster_path")]

\* the fields the Media constructor assigns, for data that is not nullish
Media(data) ==
    [id |-> Get(data, "id"),
     mediaType |-> OrElse(Get(data, "media_type"), Str(<<"unknown">>)),
     popularity |-> Get(data, "popularity"),
     overview |-> Get(data, "overview"),
     posterPath |-> Get(data, "poster_path"),
     backdropPath |-> Get(data, "backdrop_path")]

\* a Movie that copies the base fields and leaves the tag as Media set it
MovieKeepsMediaType(data) ==
    IF Nullish(data) THEN Throw
    ELSE Return(Obj(Media(data) @@
             [title |-> Get(data, "title"),
              originalTitle |-> Get(data, "original_title"),
              releaseDate |-> Get(data, "release_date"),
              genreIds |-> Get(data, "genre_ids"),
              voteAverage |-> Get(data, "vote_average"),
              voteCount |-> Get(data, "vote_count")]))

Movie(data) ==
    IF Nullish(data) THEN Throw
    ELSE Return(Obj([Media(data) EXCEPT !.mediaType = Str(<<"Movie">>)] @@
             [title |-> Get(data, "title"),
              originalTitle |-> Get(data, "original_title"),
              releaseDate |-> Get(data, "release_date"),
              genreIds |-> Get(data, "genre_ids"),
              voteAverage |-> Get(data, "vote_average"),
              voteCount |-> Get(data, "vote_count")]))

TVShow(data) ==
    IF Nullish(data) THEN Throw
    ELSE Return(Obj([Media(data) EXCEPT !.mediaType = Str(<<"TVShow">>)] @@
             [name |-> Get(data, "name"),
              originalName |-> Get(data, "original_name"),
              firstAirDate |-> Get(data, "first_air_date"),
              genreIds |-> Get(data, "genre_ids"),
              voteAverage |-> Get(data, "vote_average"),
              voteCount |-> Get(data, "vote_count")]))

Person(data) ==
    IF Nullish(data) THEN Throw
    ELSE Return(Obj([Media(data) EXCEPT !.mediaType = Str(<<"Person">>)] @@
             [name |-> Get(data, "name"),
              knownFor |-> Get(data, "known_for"),
              gender |-> Get(data, "gender"),
              knownForDepartment |-> Get(data, "known_for_department")]))

\* a constructor that reads the rating as data.author_details?.rating
ReviewOptionalChaining(data) ==
    IF Nullish(data) THEN Throw
    ELSE Return(Obj([author |-> Get(data, "author"),
                     content |-> Get(data, "content"),
                     created |-> Get(data, "created_at"),
                     updated |-> Get(data, "updated_at"),
                     rating |-> IF Nullish(Get(data, "author_details")) THEN Num(0)
                                ELSE OrElse(Get(Get(data, "author_details"), "rating"),
                                            Num(0))]))

\* data.author_details.rating reads a property of data.author_details
Review(data) ==
    IF Nullish(data) \/ Nullish(Get(data, "author_details")) THEN Throw
    ELSE Return(Obj([author |-> Get(data, "author"),
                     content |-> Get(data, "content"),
                     created |-> Get(data, "created_at"),
                     updated |-> Get(data, "updated_at"),
                     rating |-> OrElse(Get(Get(data, "author_details"), "rating"),
                                       Num(0))]))

\* a dispatch whose default arm builds a Movie
MultiSearchItemDefaultsToMovie(item) ==
    IF Nullish(item) THEN Throw
    ELSE LET mt == Get(item, "media_type") IN
         CASE SameVal(mt, Str(<<"tv">>)) -> TVShow(item)
           [] SameVal(mt, Str(<<"person">>)) -> Person(item)
           [] OTHER -> Movie(item)

\* the callback of data.results.map in /search/multi
MultiSearchItem(item) ==
    IF Nullish(item) THEN Throw
    ELSE LET mt == Get(item, "media_type") IN
         CASE SameVal(mt, Str(<<"movie">>)) -> Movie(item)
           [] SameVal(mt, Str(<<"tv">>)) -> TVShow(item)
           [] SameVal(mt, Str(<<"person">>)) -> Person(item)
           [] OTHER -> Return(item)

\* new cls(data) by class name
New(cls, data) ==
    CASE cls = "Movie" -> Movie(data)
      [] cls = "TVShow" -> TVShow(data)
      [] cls = "Person" -> Person(data)
      [] cls = "Review" -> Review(data)
      [] cls = "multi" -> MultiSearchItem(data)

(***************************************************************************)
(* Raw upstream objects for the entity constructors: every subset of the   *)
(* fields a class reads, media_type and author_details in several forms.   *)
(***************************************************************************)
MediaFields == {"id", "popularity", "overview", "poster_path", "backdrop_path"}
MovieFields == {"title", "original_title", "release_date", "genre_ids",
                "vote_average", "vote_count"}
TVShowFields == {"name", "original_name", "first_air_date", "genre_ids",
                 "vote_average", "vote_count"}
PersonFields == {"name", "known_for", "gender", "known_for_department"}
ReviewFields == {"author", "content", "created_at", "updated_at"}

\* one value per upstream field, different from field to field
Sample(k) ==
    CASE k = "id" -> Num(550)
      [] k = "popularity" -> Num(61)
      [] k = "gender" -> Num(2)
      [] k = "vote_average" -> Num(8)
      [] k = "vote_count" -> Num(26280)
      [] k = "genre_ids" -> Arr(<<Num(18), Num(53)>>)
      [] k = "known_for" -> Arr(<<Obj([id |-> Num(807)])>>)
      [] k = "poster_path" -> Null
      [] OTHER -> Str(<<k>>)

\* the forms of media_type: the three recognized tags, another tag, falsy values
MediaTypes == {Str(<<"movie">>), Str(<<"tv">>), Str(<<"person">>),
               Str(<<"collection">>), Str(<<>>), Null}

\* the forms of author_details: with a rating (non-zero, zero, null), without
\* one, null, and a string
AuthorDetails == {Obj([rating |-> Num(8), username |-> Str(<<"u">>)]),
                  Obj([rating |-> Num(0)]), Obj([rating |-> Null]),
                  Obj([username |-> Str(<<"u">>)]), EmptyObj, Null,
                  Str(<<"u">>)}

\* the object with the fields ks at their sample values, plus extra
RawWith(ks, extra) == Obj(extra @@ [k \in ks |-> Sample(k)])

\* optional one-field records: the field absent, or present in each form
Optional(k, forms) == {<<>>} \cup {(k :> f) : f \in forms}

FieldsOf(cls) ==
    CASE cls = "Movie" -> MediaFields \cup MovieFields
      [] cls = "TVShow" -> MediaFields \cup TVShowFields
      [] cls = "Person" -> MediaFields \cup PersonFields
      [] cls = "Review" -> ReviewFields
      [] cls = "multi" -> {"id", "title", "name"}

RawObjects(cls) ==
    {RawWith(ks, x) : ks \in SUBSET FieldsOf(cls),
                      x \in IF cls = "Review"
                            THEN Optional("author_details", AuthorDetails)
                            ELSE Optional("media_type", MediaTypes)}

Classes == {"Movie", "TVShow", "Person", "Review", "multi"}

NotBuilt == [built |-> FALSE, thrown |-> FALSE, val |-> Undef]
Built(o) == [built |-> TRUE, thrown |-> o.thrown, val |-> o.val]

(***************************************************************************)
(* Entity construction on its own: a class and a raw object are drawn,     *)
(* and the constructor (or the multi-search callback) is applied to it.    *)
(***************************************************************************)
Slots == 1..MaxReq

NoReq == [group |-> "none", path |-> <<>>, query |-> Undef]
NoRoute == [id |-> "none", idx |-> 0, params |-> <<>>]
NoCall == [issued |-> FALSE, url |-> <<>>, params |-> <<>>, state |-> "none", data |-> Undef]
NoResp == [sent |-> FALSE, status |-> 0, body |-> Undef]

DefaultEnv == [TMDB_BASE_URL |-> <<"https://api.themoviedb.org/3">>,
               TMDB_API_KEY |-> <<"KEY">>]

ServerIdle ==
    /\ pc = [r \in Slots |-> "idle"]
    /\ req = [r \in Slots |-> NoReq]
    /\ route = [r \in Slots |-> NoRoute]
    /\ call = [r \in Slots |-> NoCall]
    /\ ncalls = [r \in Slots |-> 0]
    /\ resp = [r \in Slots |-> NoResp]
    /\ nresp = [r \in Slots |-> 0]

InitNorm ==
    /\ env = DefaultEnv
    /\ load = "sequential"
    /\ ServerIdle
    /\ kind \in Classes
    /\ raw \in RawObjects(kind)
    /\ out = NotBuilt

NewMovie ==
    /\ kind = "Movie" /\ ~out.built
    /\ out' = Built(Movie(raw))
    /\ UNCHANGED <<serverVars, kind, raw>>

NewTVShow ==
    /\ kind = "TVShow" /\ ~out.built
    /\ out' = Built(TVShow(raw))
    /\ UNCHANGED <<serverVars, kind, raw>>

NewPerson ==
    /\ kind = "Person" /\ ~out.built
    /\ out' = Built(Person(raw))
    /\ UNCHANGED <<serverVars, kind, raw>>

NewReview ==
    /\ kind = "Review" /\ ~out.built
    /\ out' = Built(Review(raw))
    /\ UNCHANGED <<serverVars, kind, raw>>

\* a callback that tags the upstream item in place before it returns it
MapMultiSearchItemInPlace ==
    /\ kind = "multi" /\ ~out.built
    /\ out' = Built(MultiSearchItem(raw))
    /\ raw' = IF raw.t = "object"
              THEN Obj(("mediaType" :> Str(<<"unknown">>)) @@ raw.v)
              ELSE raw
    /\ UNCHANGED <<serverVars, kind>>

MapMultiSearchItem ==
    /\ kind = "multi" /\ ~out.built
    /\ out' = Built(MultiSearchItem(raw))
    /\ UNCHANGED <<serverVars, kind, raw>>

NextNorm == NewMovie \/ NewTVShow \/ NewPerson \/ NewReview \/ MapMultiSearchItem

SpecNorm == InitNorm /\ [][NextNorm]_vars

(***************************************************************************)
(* Strings.                                                                *)
(***************************************************************************)
DigitChars == {"0", "1", "2", "3", "4", "5", "6", "7", "8", "9"}

\* /^\d+$/ and the route pattern (\d+)
IsDigits(s) == Len(s) > 0 /\ \A i \in 1..Len(s) : s[i] \in DigitChars

DigitValue(c) ==
    CASE c = "0" -> 0 [] c = "1" -> 1 [] c = "2" -> 2 [] c = "3" -> 3
      [] c = "4" -> 4 [] c = "5" -> 5 [] c = "6" -> 6 [] c = "7" -> 7
      [] c = "8" -> 8 [] c = "9" -> 9

DigitChar(d) ==
    CASE d = 0 -> "0" [] d = 1 -> "1" [] d = 2 -> "2" [] d = 3 -> "3"
      [] d = 4 -> "4" [] d = 5 -> "5" [] d = 6 -> "6" [] d = 7 -> "7"
      [] d = 8 -> "8" [] d = 9 -> "9"

\* Number(s) for a string of digits
RECURSIVE NumberOf(_)
NumberOf(s) ==
    IF Len(s) = 0 THEN 0
    ELSE 10 * NumberOf(SubSeq(s, 1, Len(s) - 1)) + DigitValue(s[Len(s)])

\* a conversion that pads the number to three digits
NumberToStringPadded(n) ==
    <<DigitChar((n \div 100) % 10), DigitChar((n \div 10) % 10), DigitChar(n % 10)>>

\* String(n) for a natural number: no leading zeros
RECURSIVE NumberToString(_)
NumberToString(n) ==
    IF n < 10 THEN <<DigitChar(n)>>
    ELSE Append(NumberToString(n \div 10), DigitChar(n % 10))

\* `${x}` for a value that is undefined or a string
TemplateString(x) == IF x.t = "string" THEN x.v ELSE <<x.t>>

\* encodeURIComponent: the reserved characters of the model's alphabet are escaped
EncodeChar(c) ==
    CASE c = "&" -> "%26" [] c = "=" -> "%3D" [] c = "#" -> "%23"
      [] c = "?" -> "%3F" [] c = "/" -> "%2F" [] c = " " -> "%20"
      [] OTHER -> c

encodeURIComponent(s) == [i \in 1..Len(s) |-> EncodeChar(s[i])]

RECURSIVE Flatten(_)
Flatten(ss) == IF Len(ss) = 0 THEN <<>> ELSE Head(ss) \o Flatten(Tail(ss))

\* a template literal: ":id" is ${req.params.<id>}, ":num" is ${Number(id)},
\* ":query" is ${query}, ":equery" is ${encodeURIComponent(query)}
Expand(tpl, id, query) ==
    Flatten([i \in 1..Len(tpl) |->
        CASE tpl[i] = ":id" -> id
          [] tpl[i] = ":num" -> NumberToString(NumberOf(id))
          [] tpl[i] = ":query" -> TemplateString(query)
          [] tpl[i] = ":equery" -> encodeURIComponent(TemplateString(query))
          [] OTHER -> <<tpl[i]>>])

(***************************************************************************)
(* The routers.  A route is its path pattern, the middleware and guard in  *)
(* front of the handler, the upstream endpoint it asks for, the way it     *)
(* shapes the upstream data and the message of its catch block.            *)
(***************************************************************************)
Lit(w) == [k |-> "lit", s |-> w]
Param(n) == [k |-> "param", s |-> n]
DigitsParam(n) == [k |-> "digits", s |-> n]

\* a handler of the form try { data = await fetchFromTmdb(endpoint); res.json(...) }
\* catch { res.status(500).json({error: msg}) }
Route(id, path, endpoint, shape, key, cls, msg) ==
    [id |-> id, path |-> path, validate |-> FALSE, needQuery |-> FALSE,
     fetch |-> TRUE, endpoint |-> endpoint, withQuery |-> FALSE,
     shape |-> shape, key |-> key, cls |-> cls, msg |-> msg, failStatus |-> 500]

\* router.get('/health'): no upstream call
\* a health check that probes the upstream API
HealthViaUpstream(id, msg) ==
    Route(id, <<Lit("health")>>, <<"/", "configuration">>, "raw", "", "", msg)

Health(id, msg) ==
    [Route(id, <<Lit("health")>>, <<>>, "health", "", "", msg) EXCEPT !.fetch = FALSE]

\* a TV route behind validateSeriesId
Validated(r) == [r EXCEPT !.validate = TRUE]
\* a search route that answers 400 when !query
NeedsQuery(r) == [r EXCEPT !.needQuery = TRUE]
\* a route that passes { query } as params to fetchFromTmdb
WithQuery(r) == [r EXCEPT !.withQuery = TRUE]

MovieSub(name) == <<Param("movie_id"), Lit(name)>>
MovieEndpoint(name) == <<"/", "movie", "/", ":id", "/", name>>

movieController ==
    << Health("movie.health", <<"Movie API is running">>),
       Route("movie.images", MovieSub("images"), MovieEndpoint("images"),
             "raw", "", "", <<"Failed to fetch movie images">>),
       Route("movie.credits", MovieSub("credits"), MovieEndpoint("credits"),
             "credits", "", "Person", <<"Failed to fetch movie credits">>),
       Route("movie.external_ids", MovieSub("external_ids"), MovieEndpoint("external_ids"),
             "raw", "", "", <<"Failed to fetch movie external IDs">>),
       Route("movie.recommendations", MovieSub("recommendations"),
             MovieEndpoint("recommendations"),
             "list", "results", "Movie", <<"Failed to fetch movie recommendations">>),
       Route("movie.reviews", MovieSub("reviews"), MovieEndpoint("reviews"),
             "list", "results", "Review", <<"Failed to fetch movie reviews">>),
       Route("movie.similar", MovieSub("similar"), MovieEndpoint("similar"),
             "list", "results", "Movie", <<"Failed to fetch similar movies">>),
       Route("movie.videos", MovieSub("videos"), MovieEndpoint("videos"),
             "prop", "results", "", <<"Failed to fetch movie videos">>),
       Route("movie.watch_providers",
             <<Param("movie_id"), Lit("watch"), Lit("providers")>>,
             <<"/", "movie", "/", ":id", "/", "watch", "/", "providers">>,
             "prop", "results", "", <<"Failed to fetch movie watch providers">>),
       NeedsQuery(WithQuery(
         Route("movie.search", <<Lit("search")>>, <<"/", "search", "/", "movie">>,
               "list", "results", "Movie", <<"Failed to search movies">>))),
       Route("movie.popular", <<Lit("popular")>>, <<"/", "movie", "/", "popular">>,
             "list", "results", "Movie", <<"Failed to fetch popular movies">>),
       Route("movie.now_playing", <<Lit("now_playing")>>,
             <<"/", "movie", "/", "now_playing">>,
             "list", "results", "Movie", <<"Failed to fetch now playing movies">>),
       Route("movie.top_rated", <<Lit("top_rated")>>, <<"/", "movie", "/", "top_rated">>,
             "list", "results", "Movie", <<"Failed to fetch top-rated movies">>),
       Route("movie.upcoming", <<Lit("upcoming")>>, <<"/", "movie", "/", "upcoming">>,
             "list", "results", "Movie", <<"Failed to fetch upcoming movies">>),
       Route("movie.details", <<DigitsParam("movie_id")>>, <<"/", "movie", "/", ":num">>,
             "single", "", "Movie", <<"Failed to fetch movie details">>) >>

TvSub(name) == <<Param("series_id"), Lit(name)>>
\* the TV sub-resources asked of the upstream movie endpoints
TvEndpointAsMovie(name) == <<"/", "movie", "/", ":id", "/", name>>

TvEndpoint(name) == <<"/", "tv", "/", ":id", "/", name>>
TvList(id, name, msg) ==
    Route(id, <<Lit(name)>>, <<"/", "tv", "/", name>>, "list", "results", "TVShow", msg)

tvShowController ==
    << Health("tv.health", <<"TV Show API is running">>),
       TvList("tv.popular", "popular", <<"Failed to fetch popular TV shows">>),
       Route("tv.latest", <<Lit("latest")>>, <<"/", "tv", "/", "latest">>,
             "single", "", "TVShow", <<"Failed to fetch latest TV show">>),
       TvList("tv.airing_today", "airing_today",
              <<"Failed to fetch airing today TV shows">>),
       TvList("tv.on_the_air", "on_the_air", <<"Failed to fetch TV shows on the air">>),
       TvList("tv.top_rated", "top_rated", <<"Failed to fetch top-rated TV shows">>),
       NeedsQuery(
         Route("tv.search", <<Lit("search"), Lit("tv")>>,
               <<"/", "search", "/", "tv", "?", "query", "=", ":equery">>,
               "list", "results", "TVShow", <<"Failed to search TV shows">>)),
       Validated(
         Route("tv.details", <<Param("series_id")>>, <<"/", "tv", "/", ":id">>,
               "single", "", "TVShow", <<"Failed to fetch TV show with id ", ":id">>)),
       Validated(
         Route("tv.videos", TvSub("videos"), TvEndpoint("videos"),
               "prop", "results", "",
               <<"Failed to fetch videos for TV show with id ", ":id">>)),
       Validated(
         Route("tv.watch_providers",
               <<Param("series_id"), Lit("watch"), Lit("providers")>>,
               <<"/", "tv", "/", ":id", "/", "watch", "/", "providers">>,
               "prop", "results", "",
               <<"Failed to fetch watch providers for TV show with id ", ":id">>)),
       Validated(
         Route("tv.images", TvSub("images"), TvEndpoint("images"),
               "prop", "backdrops", "",
               <<"Failed to fetch images for TV show with id ", ":id">>)),
       Validated(
         Route("tv.credits", TvSub("credits"), TvEndpoint("credits"),
               "credits", "", "Person",
               <<"Failed to fetch credits for TV show with id ", ":id">>)),
       Validated(
         Route("tv.reviews", TvSub("reviews"), TvEndpoint("reviews"),
               "list", "results", "Review",
               <<"Failed to fetch reviews for TV show with id ", ":id">>)),
       Validated(
         Route("tv.recommendations", TvSub("recommendations"),
               TvEndpoint("recommendations"), "list", "results", "TVShow",
               <<"Failed to fetch recommendations for TV show with id ", ":id">>)),
       Validated(
         Route("tv.similar", TvSub("similar"), TvEndpoint("similar"),
               "list", "results", "TVShow",
               <<"Failed to fetch similar TV shows for id ", ":id">>)) >>

PersonSub(name) == <<DigitsParam("id"), Lit(name)>>
PersonEndpoint(name) == <<"/", "person", "/", ":id", "/", name>>

personController ==
    << Health("person.health", <<"Person API is running">>),
       Route("person.popular", <<Lit("popular")>>, <<"/", "person", "/", "popular">>,
             "list", "results", "Person", <<"Failed to fetch popular persons">>),
       Route("person.search", <<Lit("search")>>,
             <<"/", "search", "/", "person", "?", "query", "=", ":query">>,
             "list", "results", "Person", <<"Failed to perform search">>),
       Route("person.movie_credits", PersonSub("movie_credits"),
             PersonEndpoint("movie_credits"),
             "list", "cast", "Movie", <<"Failed to fetch person movie credits">>),
       Route("person.tv_credits", PersonSub("tv_credits"), PersonEndpoint("tv_credits"),
             "list", "cast", "TVShow", <<"Failed to fetch person TV credits">>),
       Route("person.images", PersonSub("images"), PersonEndpoint("images"),
             "raw", "", "", <<"Failed to fetch person images">>),
       Route("person.external_ids", PersonSub("external_ids"),
             PersonEndpoint("external_ids"),
             "raw", "", "", <<"Failed to fetch external IDs">>),
       Route("person.details", <<DigitsParam("id")>>, <<"/", "person", "/", ":id">>,
             "single", "", "Person", <<"Failed to fetch person details">>) >>

TmdbSearch(id, name, msg) ==
    WithQuery(Route(id, <<Lit("search"), Lit(name)>>, <<"/", "search", "/", name>>,
                    "raw", "", "", msg))

tmdbController ==
    << Health("tmdb.health", <<"TMDb API is running">>),
       [Route("tmdb.auth_validate", <<Lit("auth"), Lit("validate")>>,
              <<"/", "authentication", "/", "token", "/", "new">>,
              "auth", "", "", <<"Invalid API Key">>) EXCEPT !.failStatus = 401],
       Health("tmdb.health2", <<"TMDb API is running">>),
       TmdbSearch("tmdb.search_collection", "collection",
                  <<"Failed to fetch collections">>),
       TmdbSearch("tmdb.search_company", "company", <<"Failed to fetch companies">>),
       [TmdbSearch("tmdb.search_multi", "multi",
                   <<"Failed to fetch multi-search results">>)
          EXCEPT !.shape = "multi", !.key = "results"],
       TmdbSearch("tmdb.search_keyword", "keyword", <<"Failed to fetch keywords">>) >>

Groups == {"tmdb", "movie", "tv", "person"}

\* the routes of a group, in the order of their registration
Router(group) ==
    CASE group = "tmdb" -> tmdbController
      [] group = "movie" -> movieController
      [] group = "tv" -> tvShowController
      [] group = "person" -> personController

\* does a path segment match a segment of a route's pattern
SegmentMatches(pat, seg) ==
    CASE pat.k = "lit" -> seg = <<pat.s>>
      [] pat.k = "param" -> Len(seg) > 0
      [] pat.k = "digits" -> IsDigits(seg)

PathMatches(r, path) ==
    /\ Len(path) = Len(r.path)
    /\ \A i \in 1..Len(path) : SegmentMatches(r.path[i], path[i])

\* a router in which the route registered last wins
FirstMatchLastRegistered(group, path) ==
    LET hits == {i \in 1..Len(Router(group)) : PathMatches(Router(group)[i], path)}
    IN IF hits = {} THEN 0 ELSE CHOOSE i \in hits : \A j \in hits : i >= j

\* the index of the first registered route that matches, 0 when none does
FirstMatch(group, path) ==
    LET hits == {i \in 1..Len(Router(group)) : PathMatches(Router(group)[i], path)}
    IN IF hits = {} THEN 0 ELSE CHOOSE i \in hits : \A j \in hits : i <= j

\* req.params: the segment the route's parameter matched (every route has at
\* most one parameter)
ParamOf(r, path) ==
    LET at == {i \in 1..Len(r.path) : r.path[i].k # "lit"}
    IN IF at = {} THEN <<>> ELSE path[CHOOSE i \in at : TRUE]

(***************************************************************************)
(* helpers/tmdbHelper.js: the upstream client.                             *)
(***************************************************************************)
\* a base URL used as configured
tmdbBaseUrlUntrimmed(e) == e.TMDB_BASE_URL

\* TMDB_BASE_URL without its trailing '/'
tmdbBaseUrl(e) ==
    LET base == e.TMDB_BASE_URL IN
    IF Len(base) > 0 /\ base[Len(base)] = "/"
    THEN SubSeq(base, 1, Len(base) - 1) ELSE base

\* a client that sends the caller's parameters in place of the default ones
fetchFromTmdbParamsReplace(e, endpoint, params) ==
    [issued |-> TRUE,
     url |-> tmdbBaseUrl(e) \o
             (IF Len(endpoint) > 0 /\ endpoint[1] = "/" THEN endpoint
              ELSE <<"/">> \o endpoint),
     params |-> IF DOMAIN params = {} THEN ("api_key" :> Str(e.TMDB_API_KEY)) ELSE params]

\* the axios.get that fetchFromTmdb(endpoint, params) issues
fetchFromTmdb(e, endpoint, params) ==
    [issued |-> TRUE,
     url |-> tmdbBaseUrl(e) \o
             (IF Len(endpoint) > 0 /\ endpoint[1] = "/" THEN endpoint
              ELSE <<"/">> \o endpoint),
     params |-> params @@ ("api_key" :> Str(e.TMDB_API_KEY))]

(***************************************************************************)
(* The upstream client on its own: a base URL and an endpoint are drawn    *)
(* and fetchFromTmdb builds the URL it requests.                           *)
(***************************************************************************)
\* the longest endpoint drawn
MaxEndpoint == 3

EndpointChars == {"/", "a", "?"}
Endpoints == UNION {[1..n -> EndpointChars] : n \in 0..MaxEndpoint}

\* base URLs without a trailing '/', with one, with two, and with a path
BaseUrls == {<<"h">>, <<"h", "/">>, <<"h", "/", "/">>, <<"h", "/", "3">>}

InitFetch ==
    /\ env \in {[DefaultEnv EXCEPT !.TMDB_BASE_URL = b] : b \in BaseUrls}
    /\ load = "sequential"
    /\ ServerIdle
    /\ kind = "fetch"
    /\ raw \in {Str(e) : e \in Endpoints}
    /\ out = NotBuilt

\* fetchFromTmdb(endpoint) up to its axios.get: the URL requested
FetchFromTmdb ==
    /\ kind = "fetch" /\ ~out.built
    /\ out' = Built(Return(Str(fetchFromTmdb(env, raw.v, <<>>).url)))
    /\ UNCHANGED <<serverVars, kind, raw>>

NextFetch == FetchFromTmdb

SpecFetch == InitFetch /\ [][NextFetch]_vars

(***************************************************************************)
(* What a handler does with the upstream data.                             *)
(***************************************************************************)
\* JSON.stringify as res.json applies it: a property whose value is undefined
\* is left out, an undefined array element becomes null
RECURSIVE ToJSON(_)
ToJSON(x) ==
    CASE x.t = "array" ->
           Arr([i \in 1..Len(x.v) |->
                  IF x.v[i].t = "undefined" THEN Null ELSE ToJSON(x.v[i])])
      [] x.t = "object" ->
           Obj([k \in {j \in DOMAIN x.v : x.v[j].t # "undefined"} |-> ToJSON(x.v[k])])
      [] OTHER -> x

\* the whole payload handed on where the handler selects a property
PropWhole(data, k) == Return(data)

\* data.k: a TypeError when data is undefined or null
Prop(data, k) == IF Nullish(data) THEN Throw ELSE Return(Get(data, k))

\* a map that stops at the first element whose constructor throws and
\* returns what it has built so far
MapNewPrefix(cls, xs) ==
    IF xs.t # "array" THEN Throw
    ELSE LET bad == {i \in 1..Len(xs.v) : New(cls, xs.v[i]).thrown}
             n == IF bad = {} THEN Len(xs.v)
                  ELSE (CHOOSE i \in bad : \A j \in bad : i <= j) - 1
         IN Return(Arr([i \in 1..n |-> New(cls, xs.v[i]).val]))

\* a map that drops an element equal to its predecessor
MapNewDedup(cls, xs) ==
    IF xs.t # "array" THEN Throw
    ELSE IF \E i \in 1..Len(xs.v) : New(cls, xs.v[i]).thrown THEN Throw
    ELSE LET kept == SelectSeq([i \in 1..Len(xs.v) |-> i],
                               LAMBDA i : i = 1 \/ xs.v[i] # xs.v[i - 1])
         IN Return(Arr([j \in 1..Len(kept) |-> New(cls, xs.v[kept[j]]).val]))

\* xs.map(item => new cls(item)): a TypeError when xs is not an array, and
\* the exception of the first constructor that throws
MapNew(cls, xs) ==
    IF xs.t # "array" THEN Throw
    ELSE IF \E i \in 1..Len(xs.v) : New(cls, xs.v[i]).thrown THEN Throw
    ELSE Return(Arr([i \in 1..Len(xs.v) |-> New(cls, xs.v[i]).val]))

\* the try block after `await fetchFromTmdb(...)`: the value handed to
\* res.json, or the exception that takes the handler to its catch block
Shaped(rt, data) ==
    CASE rt.shape = "raw" -> Return(data)
      [] rt.shape = "prop" -> Prop(data, rt.key)
      [] rt.shape = "single" -> New(rt.cls, data)
      [] rt.shape = "list" ->
           IF Nullish(data) THEN Throw ELSE MapNew(rt.cls, Get(data, rt.key))
      [] rt.shape = "credits" ->
           IF Nullish(data) THEN Throw
           ELSE LET cast == MapNew("Person", Get(data, "cast"))
                    crew == MapNew("Person", Get(data, "crew"))
                IN IF cast.thrown \/ crew.thrown THEN Throw
                   ELSE Return(Obj([cast |-> cast.val, crew |-> crew.val]))
      [] rt.shape = "multi" ->
           IF Nullish(data) THEN Throw
           ELSE LET searchResults == MapNew("multi", Get(data, rt.key))
                IN IF searchResults.thrown THEN Throw
                   ELSE Return(Obj([searchResults |-> searchResults.val]))
      [] rt.shape = "auth" ->
           Return(Obj([message |-> Str(<<"API Key is valid">>)]))

\* res.status(status).json(body)
Response(status, body) == [sent |-> TRUE, status |-> status, body |-> ToJSON(body)]

\* an error reported under the key of the success payloads
ErrorBodyAsMessage(msg) == Obj([message |-> Str(msg)])

ErrorBody(msg) == Obj([error |-> Str(msg)])

\* a catch block that answers 500 in every handler
CaughtAlways500(rt, id, query) == Response(500, ErrorBody(Expand(rt.msg, id, query)))

\* a catch block that answers without setting the status
CaughtWithoutStatus(rt, id, query) == Response(200, ErrorBody(Expand(rt.msg, id, query)))

\* the catch block of a handler
Caught(rt, id, query) == Response(rt.failStatus, ErrorBody(Expand(rt.msg, id, query)))

\* the response once the upstream call has resolved with data
OnResolved(rt, id, query, data) ==
    LET o == Shaped(rt, data)
    IN IF o.thrown THEN Caught(rt, id, query) ELSE Response(200, o.val)

(***************************************************************************)
(* The environment: configurations, inbound requests, upstream replies.    *)
(***************************************************************************)
Envs == {DefaultEnv,
         [DefaultEnv EXCEPT !.TMDB_BASE_URL = <<"https://api.themoviedb.org/3", "/">>]}

\* path segments sent where a route has a parameter: digits, digits with
\* leading zeros, digits followed by a letter, a word
Ids == {<<"7">>, <<"0", "0", "7">>, <<"7", "x">>, <<"search">>}

SegChoices(pat) == IF pat.k = "lit" THEN {<<pat.s>>} ELSE Ids

Instances(path) ==
    {p \in [1..Len(path) -> UNION {SegChoices(path[i]) : i \in 1..Len(path)}] :
        \A i \in 1..Len(path) : p[i] \in SegChoices(path[i])}

\* a path the movie and person groups serve and the TV group does not
UnroutedPaths(group) ==
    IF group = "tv" THEN {<<<<"7">>, <<"external_ids">>>>} ELSE {}

\* the paths sent to a group: every registered pattern with every id, the
\* root, and the paths no route of the group serves
RequestPaths(group) ==
    {<<>>} \cup UnroutedPaths(group) \cup UNION {Instances(Router(group)[i].path) : i \in 1..Len(Router(group))}

\* the forms of ?query=: absent, empty, a word, a value with reserved characters
Queries == {Undef, Str(<<>>), Str(<<"a">>), Str(<<"a", "&", "page", "=", "2">>)}

QueriesFor(path) ==
    IF Len(path) > 0 /\ path[1] = <<"search">> THEN Queries ELSE {Undef}

\* elements of the arrays the upstream API returns: a movie that is also a
\* rated review, a TV show without author_details, a person with author_details
\* that hold no rating, an item of another media type, and null
Items ==
    { RawWith(FieldsOf("Movie") \cup ReviewFields,
              ("media_type" :> Str(<<"movie">>)) @@
              ("author_details" :> Obj([rating |-> Num(8)]))),
      RawWith(FieldsOf("TVShow") \ {"overview"}, "media_type" :> Str(<<"tv">>)),
      RawWith(FieldsOf("Person") \cup {"author"},
              ("media_type" :> Str(<<"person">>)) @@ ("author_details" :> EmptyObj)),
      RawWith({"id", "name"}, "media_type" :> Str(<<"collection">>)),
      Null }

Arrays == UNION {[1..n -> Items] : n \in 0..MaxLen}

\* the bodies the upstream API answers with
AllPayloads ==
    {Obj([page |-> Num(1), results |-> Arr(a)]) : a \in Arrays}
    \cup {Obj([id |-> Num(7), cast |-> Arr(p[1]), crew |-> Arr(p[2])]) :
            p \in {q \in Arrays \X Arrays : Len(q[1]) + Len(q[2]) <= MaxLen}}
    \cup Items
    \cup {Obj([id |-> Num(7), backdrops |-> Arr(<<Obj([file_path |-> Str(<<"/b.jpg">>)])>>),
               posters |-> Arr(<<>>)]),
          Obj([id |-> Num(7), imdb_id |-> Str(<<"tt0137523">>)]),
          Str(<<"<html>">>)}

\* the ways an upstream call fails
AllFailures == {"network", "timeout", "http4xx", "http5xx"}

(***************************************************************************)
(* The server.                                                             *)
(***************************************************************************)
Init ==
    /\ env \in Envs
    /\ load = "sequential"
    /\ ServerIdle
    /\ kind = "none" /\ raw = Undef /\ out = NotBuilt

\* every request of the model's alphabet
AllRequests ==
    UNION {{[group |-> g, path |-> p, query |-> q] : q \in QueriesFor(p)} :
             <<g, p>> \in UNION {{g2} \X RequestPaths(g2) : g2 \in Groups}}

Request(g, p, q) == [group |-> g, path |-> p, query |-> q]

\* the requests sent concurrently: the health check of every group, searches
\* with and without a query, ids that pass and fail validation, a list, the
\* credits and the credential check
FewRequests ==
    {Request(g, <<<<"health">>>>, Undef) : g \in Groups}
    \cup {Request("movie", <<<<"search">>>>, q) : q \in {Undef, Str(<<"a">>)}}
    \cup {Request("tv", <<id>>, Undef) : id \in {<<"7">>, <<"7", "x">>}}
    \cup {Request("movie", <<<<"7">>, <<"credits">>>>, Undef),
          Request("person", <<<<"popular">>>>, Undef),
          Request("tmdb", <<<<"auth">>, <<"validate">>>>, Undef),
          Request("person", <<<<"7", "x">>>>, Undef)}

\* the upstream replies to concurrent requests
FewPayloads ==
    {p \in AllPayloads :
        \/ /\ p.t = "object" /\ "results" \in DOMAIN p.v
           /\ Len(p.v.results.v) = 1 /\ ~Nullish(p.v.results.v[1])
           /\ Get(p.v.results.v[1], "media_type") \in {Str(<<"movie">>), Str(<<"person">>)}
        \/ /\ p.t = "object" /\ "cast" \in DOMAIN p.v
           /\ Len(p.v.cast.v) = 1 /\ Len(p.v.crew.v) = 1
           /\ ~Nullish(p.v.cast.v[1]) /\ p.v.crew.v[1] = Null}

\* the requests followed to their end under fair scheduling: one of every
\* kind of handling (no upstream call: health, failed validation, missing
\* query, no route; one upstream call: a single entity, the credits)
LiveRequests ==
    {Request("tmdb", <<<<"health">>>>, Undef),
     Request("tv", <<<<"7", "x">>>>, Undef),
     Request("movie", <<<<"search">>>>, Undef),
     Request("person", <<<<"7", "x">>>>, Undef),
     Request("tv", <<<<"7">>>>, Undef),
     Request("movie", <<<<"7">>, <<"credits">>>>, Undef)}

\* their upstream replies: a list of one movie, and credits of one person
LivePayloads ==
    {p \in FewPayloads :
        \/ /\ "results" \in DOMAIN p.v
           /\ Get(p.v.results.v[1], "media_type") = Str(<<"movie">>)
        \/ /\ "cast" \in DOMAIN p.v
           /\ Get(p.v.cast.v[1], "media_type") = Str(<<"person">>)}

\* the traffic of the specifications
Requests ==
    CASE load = "sequential" -> AllRequests
      [] load = "concurrent" -> FewRequests
      [] load = "live" -> LiveRequests
Payloads ==
    CASE load = "sequential" -> AllPayloads
      [] load = "concurrent" -> FewPayloads
      [] load = "live" -> LivePayloads
Failures ==
    CASE load = "sequential" -> AllFailures
      [] load = "concurrent" -> {"timeout", "http4xx"}
      [] load = "live" -> {"timeout"}

\* in Spec the client sends its requests one after the other, each in the
\* first slot; in SpecConc any free slot takes a request at any time
MaySend(r) ==
    /\ pc[r] = "idle"
    /\ load = "sequential" => \A s \in Slots : pc[s] = "idle" /\ r <= s

\* request rq arrives in slot r and Express looks for its route
Incoming(r, rq) ==
    /\ rq \in Requests
    /\ req' = [req EXCEPT ![r] = rq]

\* the first registered route that matches the request, and req.params
Matched(rq) == FirstMatch(rq.group, rq.path)
RouteFor(rq) == Router(rq.group)[Matched(rq)]
IdOf(rq) == ParamOf(RouteFor(rq), rq.path)

\* the answer of a handler that responds without awaiting anything
Answer(r, rq, response) ==
    /\ route' = [route EXCEPT ![r] = [id |-> RouteFor(rq).id, idx |-> Matched(rq),
                                      params |-> IdOf(rq)]]
    /\ resp' = [resp EXCEPT ![r] = response]
    /\ nresp' = [nresp EXCEPT ![r] = @ + 1]
    /\ pc' = [pc EXCEPT ![r] = "done"]
    /\ UNCHANGED <<env, load, call, ncalls, normVars>>

\* validateSeriesId stops the request: it answers 400 and does not call next()
\* the digit test without its anchors: /\d+/
InvalidSeriesIdUnanchored(rq) ==
    RouteFor(rq).validate /\ ~(\E i \in 1..Len(IdOf(rq)) : IdOf(rq)[i] \in DigitChars)

InvalidSeriesId(rq) == RouteFor(rq).validate /\ ~IsDigits(IdOf(rq))

\* the query check in the person search as well
QueryMissingAnySearch(rq) ==
    /\ RouteFor(rq).needQuery \/ RouteFor(rq).id = "person.search"
    /\ ~Truthy(rq.query)

\* a check for the absent query only
QueryMissingOnlyUndefined(rq) == RouteFor(rq).needQuery /\ rq.query.t = "undefined"

\* if (!query) return res.status(400)...
QueryMissing(rq) == RouteFor(rq).needQuery /\ ~Truthy(rq.query)

\* no route matches: Express's final handler answers 404
NotFound(r) ==
    /\ MaySend(r)
    /\ \E rq \in Requests :
        /\ Incoming(r, rq)
        /\ Matched(rq) = 0
        /\ route' = [route EXCEPT ![r] = NoRoute]
        /\ resp' = [resp EXCEPT ![r] =
                      [sent |-> TRUE, status |-> 404, body |-> Str(<<"Cannot GET">>)]]
        /\ nresp' = [nresp EXCEPT ![r] = @ + 1]
        /\ pc' = [pc EXCEPT ![r] = "done"]
        /\ UNCHANGED <<env, load, call, ncalls, normVars>>

validateSeriesId(r) ==
    /\ MaySend(r)
    /\ \E rq \in Requests :
        /\ Incoming(r, rq)
        /\ Matched(rq) # 0
        /\ InvalidSeriesId(rq)
        /\ Answer(r, rq,
             Response(400, ErrorBody(<<"Invalid series_id format. It must be a number.">>)))

MissingQuery(r) ==
    /\ MaySend(r)
    /\ \E rq \in Requests :
        /\ Incoming(r, rq)
        /\ Matched(rq) # 0
        /\ ~InvalidSeriesId(rq)
        /\ QueryMissing(rq)
        /\ Answer(r, rq, Response(400, ErrorBody(<<"Query parameter is required">>)))

\* router.get('/health')
HealthCheck(r) ==
    /\ MaySend(r)
    /\ \E rq \in Requests :
        /\ Incoming(r, rq)
        /\ Matched(rq) # 0
        /\ ~RouteFor(rq).fetch
        /\ Answer(r, rq, Response(200, Obj([message |-> Str(RouteFor(rq).msg)])))

\* a handler up to its `await fetchFromTmdb(...)`
CallUpstream(r) ==
    /\ MaySend(r)
    /\ \E rq \in Requests :
        /\ Incoming(r, rq)
        /\ Matched(rq) # 0
        /\ RouteFor(rq).fetch
        /\ ~InvalidSeriesId(rq)
        /\ ~QueryMissing(rq)
        /\ route' = [route EXCEPT ![r] = [id |-> RouteFor(rq).id, idx |-> Matched(rq),
                                          params |-> IdOf(rq)]]
        /\ call' = [call EXCEPT ![r] =
                      fetchFromTmdb(env, Expand(RouteFor(rq).endpoint, IdOf(rq), rq.query),
                                    IF RouteFor(rq).withQuery THEN [query |-> rq.query]
                                    ELSE <<>>)
                      @@ [state |-> "pending", data |-> Undef]]
        /\ ncalls' = [ncalls EXCEPT ![r] = @ + 1]
        /\ pc' = [pc EXCEPT ![r] = "waiting"]
        /\ UNCHANGED <<env, load, resp, nresp, normVars>>

\* the matched route kept in one variable of the module, which every
\* request in flight overwrites
RouteOfShared(r) ==
    IF route[1].idx = 0 THEN Router(req[r].group)[route[r].idx]
    ELSE Router(req[1].group)[route[1].idx]

RouteOf(r) == Router(req[r].group)[route[r].idx]

\* the upstream call resolves with data: the rest of the try block runs
UpstreamResolves(r) ==
    /\ pc[r] = "waiting"
    /\ \E data \in Payloads :
        /\ call' = [call EXCEPT ![r].state = "resolved", ![r].data = data]
        /\ resp' = [resp EXCEPT ![r] =
                      OnResolved(RouteOf(r), route[r].params, req[r].query, data)]
    /\ nresp' = [nresp EXCEPT ![r] = @ + 1]
    /\ pc' = [pc EXCEPT ![r] = "done"]
    /\ UNCHANGED <<env, load, req, route, ncalls, normVars>>

\* a client that repeats a failed call once before it gives up
UpstreamRejectsAndRetries(r) ==
    /\ pc[r] = "waiting"
    /\ IF ncalls[r] < 2
       THEN /\ ncalls' = [ncalls EXCEPT ![r] = @ + 1]
            /\ UNCHANGED <<env, load, req, route, call, resp, nresp, pc, normVars>>
       ELSE /\ \E failure \in Failures : call' = [call EXCEPT ![r].state = failure]
            /\ resp' = [resp EXCEPT ![r] =
                          Caught(RouteOf(r), route[r].params, req[r].query)]
            /\ nresp' = [nresp EXCEPT ![r] = @ + 1]
            /\ pc' = [pc EXCEPT ![r] = "done"]
            /\ UNCHANGED <<env, load, req, route, ncalls, normVars>>

\* a client with a timeout: the handler answers while the call is pending
UpstreamTimesOut(r) ==
    /\ pc[r] = "waiting"
    /\ resp' = [resp EXCEPT ![r] = Caught(RouteOf(r), route[r].params, req[r].query)]
    /\ nresp' = [nresp EXCEPT ![r] = @ + 1]
    /\ pc' = [pc EXCEPT ![r] = "done"]
    /\ UNCHANGED <<env, load, req, route, call, ncalls, normVars>>

\* a handler without a catch block: the rejection goes unanswered
UpstreamRejectsUnanswered(r) ==
    /\ pc[r] = "waiting"
    /\ \E failure \in Failures : call' = [call EXCEPT ![r].state = failure]
    /\ pc' = [pc EXCEPT ![r] = "unhandled"]
    /\ UNCHANGED <<env, load, req, route, ncalls, resp, nresp, normVars>>

\* the upstream call rejects: fetchFromTmdb rethrows, the catch block runs
UpstreamRejects(r) ==
    /\ pc[r] = "waiting"
    /\ \E failure \in Failures : call' = [call EXCEPT ![r].state = failure]
    /\ resp' = [resp EXCEPT ![r] = Caught(RouteOf(r), route[r].params, req[r].query)]
    /\ nresp' = [nresp EXCEPT ![r] = @ + 1]
    /\ pc' = [pc EXCEPT ![r] = "done"]
    /\ UNCHANGED <<env, load, req, route, ncalls, normVars>>

\* the exchange is over and its slot is free again
Close(r) ==
    /\ pc[r] = "done"
    /\ pc' = [pc EXCEPT ![r] = "idle"]
    /\ req' = [req EXCEPT ![r] = NoReq]
    /\ route' = [route EXCEPT ![r] = NoRoute]
    /\ call' = [call EXCEPT ![r] = NoCall]
    /\ ncalls' = [ncalls EXCEPT ![r] = 0]
    /\ resp' = [resp EXCEPT ![r] = NoResp]
    /\ nresp' = [nresp EXCEPT ![r] = 0]
    /\ UNCHANGED <<env, load, normVars>>

Next ==
    \E r \in Slots :
        \/ NotFound(r)
        \/ validateSeriesId(r)
        \/ MissingQuery(r)
        \/ HealthCheck(r)
        \/ CallUpstream(r)
        \/ UpstreamResolves(r)
        \/ UpstreamRejects(r)
        \/ Close(r)

Spec == Init /\ [][Next]_vars

\* up to MaxReq requests in flight at once
InitConc ==
    /\ env = DefaultEnv
    /\ load = "concurrent"
    /\ ServerIdle
    /\ kind = "none" /\ raw = Undef /\ out = NotBuilt

SpecConc == InitConc /\ [][Next]_vars

\* the event loop runs the continuation of every call that settles: a
\* request waiting on its upstream call is not left waiting for ever
Settles == \A r \in Slots : WF_vars(UpstreamResolves(r) \/ UpstreamRejects(r))

InitLive ==
    /\ env = DefaultEnv
    /\ load = "live"
    /\ ServerIdle
    /\ kind = "none" /\ raw = Undef /\ out = NotBuilt

\* requests in flight together whose upstream calls may never settle
SpecFew == InitLive /\ [][Next]_vars

SpecLive == InitLive /\ [][Next]_vars /\ Settles

(***************************************************************************)
(* Vocabulary of the properties.                                           *)
(***************************************************************************)
\* a body of the form {error: <string>}
IsErrorBody(b) == b.t = "object" /\ DOMAIN b.v = {"error"} /\ b.v.error.t = "string"
\* a body of the form {message: <string>}
IsMessageBody(b) == b.t = "object" /\ DOMAIN b.v = {"message"} /\ b.v.message.t = "string"

QueryAbsentOrEmpty(q) == q.t = "undefined" \/ (q.t = "string" /\ Len(q.v) = 0)

IsHealth(rq) == rq.path = <<<<"health">>>>
IsCredentialCheck(rq) == rq.group = "tmdb" /\ rq.path = <<<<"auth">>, <<"validate">>>>
IsMovieSearch(rq) == rq.group = "movie" /\ rq.path = <<<<"search">>>>
IsTvSearch(rq) == rq.group = "tv" /\ rq.path = <<<<"search">>, <<"tv">>>>
IsPersonSearch(rq) == rq.group = "person" /\ rq.path = <<<<"search">>>>
IsGenericSearch(rq) ==
    /\ rq.group = "tmdb" /\ Len(rq.path) = 2 /\ rq.path[1] = <<"search">>
    /\ rq.path[2] \in {<<"collection">>, <<"company">>, <<"multi">>, <<"keyword">>}
IsMultiSearch(rq) == rq.group = "tmdb" /\ rq.path = <<<<"search">>, <<"multi">>>>

\* the paths of a group that are not keyed by an id
LiteralPaths(group) ==
    CASE group = "movie" -> {<<<<w>>>> : w \in {"health", "search", "popular",
                                              "now_playing", "top_rated", "upcoming"}}
      [] group = "tv" -> {<<<<w>>>> : w \in {"health", "popular", "latest", "airing_today",
                                           "on_the_air", "top_rated"}}
      [] group = "person" -> {<<<<w>>>> : w \in {"health", "popular", "search"}}
      [] group = "tmdb" -> {<<<<"health">>>>}

\* what follows the id in the id-keyed paths of a group
SubResources(group) ==
    CASE group = "movie" ->
           {<<>>, <<<<"watch">>, <<"providers">>>>} \cup
           {<<<<w>>>> : w \in {"images", "credits", "external_ids", "recommendations",
                               "reviews", "similar", "videos"}}
      [] group = "tv" ->
           {<<>>, <<<<"watch">>, <<"providers">>>>} \cup
           {<<<<w>>>> : w \in {"images", "credits", "recommendations",
                               "reviews", "similar", "videos"}}
      [] group = "person" ->
           {<<>>} \cup {<<<<w>>>> : w \in {"movie_credits", "tv_credits", "images",
                                          "external_ids"}}
      [] group = "tmdb" -> {}

\* a request to an id-keyed endpoint, its id being the first segment
IsIdKeyed(rq) ==
    /\ Len(rq.path) >= 1
    /\ Tail(rq.path) \in SubResources(rq.group)
    /\ rq.path \notin LiteralPaths(rq.group)

HasNonNumericId(rq) == IsIdKeyed(rq) /\ ~IsDigits(rq.path[1])

\* answered at once with 400 and {error}, the upstream client never called
Rejected400(r) ==
    /\ pc[r] = "done" /\ resp[r].sent /\ nresp[r] = 1
    /\ resp[r].status = 400 /\ IsErrorBody(resp[r].body)
    /\ ncalls[r] = 0 /\ ~call[r].issued

(***************************************************************************)
(* C1: when the upstream call of a handler fails (any handler but the      *)
(* credential check), the request is answered, once, with status 500 and   *)
(* a body {error: <string>}.                                               *)
(***************************************************************************)
C1_UpstreamFailureIs500 ==
    \A r \in Slots :
        (call[r].issued /\ call[r].state \in AllFailures /\ ~IsCredentialCheck(req[r]))
        => /\ pc[r] = "done" /\ resp[r].sent /\ nresp[r] = 1
           /\ resp[r].status = 500
           /\ IsErrorBody(resp[r].body)

C1_Witness ==
    \E r \in Slots :
        /\ req[r].group = "tv" /\ req[r].path = <<<<"7">>, <<"reviews">>>>
        /\ call[r].state = "network" /\ resp[r].status = 500

(***************************************************************************)
(* C2: a movie /search or TV /search/tv request whose query is missing or  *)
(* empty is answered 400 with {error}, and no upstream call is made.       *)
(***************************************************************************)
C2_EmptyQueryIs400 ==
    \A r \in Slots :
        (/\ pc[r] # "idle"
         /\ IsMovieSearch(req[r]) \/ IsTvSearch(req[r])
         /\ QueryAbsentOrEmpty(req[r].query))
        => Rejected400(r)

C2_Witness ==
    \E r \in Slots :
        /\ IsTvSearch(req[r]) /\ SameVal(req[r].query, Str(<<>>))
        /\ resp[r].status = 400 /\ ncalls[r] = 0

(***************************************************************************)
(* C3, as claimed: in every group, a request with an absent query on a     *)
(* search endpoint (the generic ones included) or a non-numeric id on an   *)
(* id-keyed endpoint is answered 400 and never reaches the upstream client.*)
(***************************************************************************)
C3_Original ==
    \A r \in Slots :
        (/\ pc[r] # "idle"
         /\ \/ /\ \/ IsMovieSearch(req[r]) \/ IsTvSearch(req[r])
                  \/ IsPersonSearch(req[r]) \/ IsGenericSearch(req[r])
               /\ req[r].query.t = "undefined"
            \/ HasNonNumericId(req[r]))
        => Rejected400(r)

\* the validation errors the code checks for
CheckedValidationError(rq) ==
    \/ (IsMovieSearch(rq) \/ IsTvSearch(rq)) /\ QueryAbsentOrEmpty(rq.query)
    \/ rq.group = "tv" /\ HasNonNumericId(rq)

(***************************************************************************)
(* C3, amended: the 400 answer that never reaches the upstream client is   *)
(* given exactly for an absent or empty query on movie /search and TV      *)
(* /search/tv and for a non-numeric series_id on the id-keyed TV           *)
(* endpoints.  The generic searches and the person search forward an       *)
(* absent query upstream, the sub-resources of a movie forward a           *)
(* non-numeric id upstream, and a non-numeric id on the movie details and  *)
(* on the id-keyed person endpoints matches no route: Express answers 404  *)
(* and no upstream call is made.                                           *)
(***************************************************************************)
C3_ValidationWhereChecked ==
    \A r \in Slots :
        pc[r] # "idle" =>
            /\ CheckedValidationError(req[r]) => Rejected400(r)
            /\ (resp[r].sent /\ resp[r].status = 400) => CheckedValidationError(req[r])
            /\ (/\ IsPersonSearch(req[r]) \/ IsGenericSearch(req[r])
                /\ req[r].query.t = "undefined")
               => call[r].issued /\ ncalls[r] = 1
            /\ (/\ req[r].group = "movie" /\ HasNonNumericId(req[r])
                /\ Len(req[r].path) > 1)
               => call[r].issued /\ ncalls[r] = 1
            /\ (/\ HasNonNumericId(req[r])
                /\ \/ req[r].group = "person"
                   \/ req[r].group = "movie" /\ Len(req[r].path) = 1)
               => resp[r].status = 404 /\ ncalls[r] = 0

C3_Witness ==
    \E r \in Slots :
        /\ req[r].group = "tv" /\ req[r].path = <<<<"7", "x">>, <<"credits">>>>
        /\ resp[r].status = 400 /\ ncalls[r] = 0

(***************************************************************************)
(* C4, as claimed: every response of a handler that is not a success has   *)
(* a body {error: <string>} and status 400 or 500.                         *)
(***************************************************************************)
C4_Original ==
    \A r \in Slots :
        (resp[r].sent /\ route[r].id # "none" /\ resp[r].status # 200)
        => IsErrorBody(resp[r].body) /\ resp[r].status \in {400, 500}

(***************************************************************************)
(* C4, amended: every response of a handler that is not a success has a    *)
(* body {error: <string>}; its status is 401 when the handler is the       *)
(* credential check (/auth/validate) and 400 or 500 otherwise.             *)
(***************************************************************************)
C4_ErrorStatuses ==
    \A r \in Slots :
        (resp[r].sent /\ route[r].id # "none" /\ resp[r].status # 200)
        => /\ IsErrorBody(resp[r].body)
           /\ IF IsCredentialCheck(req[r]) THEN resp[r].status = 401
              ELSE resp[r].status \in {400, 500}

C4_Witness ==
    \E r \in Slots :
        /\ IsCredentialCheck(req[r]) /\ call[r].state = "http4xx"
        /\ resp[r].status = 401 /\ IsErrorBody(resp[r].body)

(***************************************************************************)
(* C5: GET /health of every group is answered 200 with {message:           *)
(* <string>} and without an upstream call, whatever the other requests in  *)
(* flight and their upstream calls are doing.                              *)
(***************************************************************************)
C5_HealthIsStatic ==
    \A r \in Slots :
        (pc[r] # "idle" /\ req[r].group \in Groups /\ IsHealth(req[r]))
        => /\ pc[r] = "done" /\ resp[r].sent /\ nresp[r] = 1
           /\ resp[r].status = 200 /\ IsMessageBody(resp[r].body)
           /\ ncalls[r] = 0 /\ ~call[r].issued

C5_Witness ==
    \E r, s \in Slots :
        /\ r # s
        /\ req[r].group = "tv" /\ IsHealth(req[r]) /\ resp[r].status = 200
        /\ pc[s] = "waiting" /\ call[s].state = "pending"

(***************************************************************************)
(* C6: a Movie, TVShow or Person built from any raw object carries the     *)
(* mediaType "Movie", "TVShow" or "Person" respectively, whether the raw   *)
(* object has a media_type or not and whatever it is.                      *)
(***************************************************************************)
C6_MediaTypeIsTheClass ==
    (out.built /\ kind \in {"Movie", "TVShow", "Person"})
    => /\ ~out.thrown
       /\ out.val.t = "object"
       /\ SameVal(Get(out.val, "mediaType"), Str(<<kind>>))

C6_Witness ==
    /\ out.built /\ kind = "Movie"
    /\ SameVal(Get(raw, "media_type"), Str(<<"tv">>))
    /\ SameVal(Get(out.val, "mediaType"), Str(<<"Movie">>))

\* o is what the handler serialises for the entity cls built from item
IsEntityOf(cls, item, o) ==
    /\ ~New(cls, item).thrown
    /\ o = ToJSON(New(cls, item).val)

\* outs is ups mapped element by element, in order
Elementwise(cls, ups, outs) ==
    /\ ups.t = "array" /\ outs.t = "array"
    /\ Len(outs.v) = Len(ups.v)
    /\ \A i \in 1..Len(ups.v) : IsEntityOf(cls, ups.v[i], outs.v[i])

\* the output of multi-search for one upstream item
DispatchedAs(item, o) ==
    LET mt == Get(item, "media_type") IN
    IF mt.t = "string" /\ mt.v = <<"movie">>
    THEN IsEntityOf("Movie", item, o) /\ SameVal(Get(o, "mediaType"), Str(<<"Movie">>))
    ELSE IF mt.t = "string" /\ mt.v = <<"tv">>
    THEN IsEntityOf("TVShow", item, o) /\ SameVal(Get(o, "mediaType"), Str(<<"TVShow">>))
    ELSE IF mt.t = "string" /\ mt.v = <<"person">>
    THEN IsEntityOf("Person", item, o) /\ SameVal(Get(o, "mediaType"), Str(<<"Person">>))
    ELSE o = item

(***************************************************************************)
(* C7: multi-search answers an upstream array of items with an array of    *)
(* the same length and order whose i-th element is the Movie, TVShow or    *)
(* Person built from the i-th item when its media_type is "movie", "tv"    *)
(* or "person", and the i-th item itself, unchanged, for any other or      *)
(* missing media_type.                                                     *)
(***************************************************************************)
C7_MultiSearchDispatch ==
    \A r \in Slots :
        (IsMultiSearch(req[r]) /\ call[r].state = "resolved") =>
            LET ups == Get(call[r].data, "results")
                outs == Get(resp[r].body, "searchResults")
            IN /\ (ups.t = "array" /\ \A i \in 1..Len(ups.v) : ups.v[i].t = "object")
                  => resp[r].status = 200
               /\ resp[r].status = 200
                  => /\ ups.t = "array" /\ outs.t = "array"
                     /\ Len(outs.v) = Len(ups.v)
                     /\ \A i \in 1..Len(ups.v) : DispatchedAs(ups.v[i], outs.v[i])

C7_Witness ==
    \E r \in Slots :
        /\ IsMultiSearch(req[r]) /\ call[r].state = "resolved" /\ resp[r].status = 200
        /\ LET ups == Get(call[r].data, "results")
               outs == Get(resp[r].body, "searchResults")
           IN /\ ups.t = "array" /\ Len(ups.v) = 2
              /\ SameVal(Get(ups.v[1], "media_type"), Str(<<"collection">>))
              /\ SameVal(Get(ups.v[2], "media_type"), Str(<<"tv">>))
              /\ outs.v[1] = ups.v[1]
              /\ SameVal(Get(outs.v[2], "mediaType"), Str(<<"TVShow">>))

(***************************************************************************)
(* C8: an endpoint that maps an upstream array answers with an array of    *)
(* the same length whose i-th element is the entity built from the i-th    *)
(* upstream element: nothing is dropped, repeated or reordered.            *)
(***************************************************************************)
C8_ListsKeepLengthAndOrder ==
    \A r \in Slots :
        (/\ pc[r] = "done" /\ call[r].state = "resolved" /\ resp[r].status = 200
         /\ RouteOf(r).shape \in {"list", "credits"})
        => IF RouteOf(r).shape = "list"
           THEN Elementwise(RouteOf(r).cls, Get(call[r].data, RouteOf(r).key), resp[r].body)
           ELSE /\ Elementwise("Person", Get(call[r].data, "cast"), Get(resp[r].body, "cast"))
                /\ Elementwise("Person", Get(call[r].data, "crew"), Get(resp[r].body, "crew"))

C8_Witness ==
    \E r \in Slots :
        /\ req[r].group = "movie" /\ req[r].path = <<<<"popular">>>>
        /\ call[r].state = "resolved" /\ resp[r].status = 200
        /\ LET ups == Get(call[r].data, "results") IN
           /\ ups.t = "array" /\ Len(ups.v) = 2 /\ ups.v[1] = ups.v[2]
           /\ resp[r].body.t = "array" /\ Len(resp[r].body.v) = 2

\* data.author_details.rating as the claims read it: absent when
\* author_details is absent
NestedRating(data) ==
    IF Get(data, "author_details").t = "object"
    THEN Get(Get(data, "author_details"), "rating")
    ELSE Undef

(***************************************************************************)
(* C9, as claimed: a Review built from a raw object without                *)
(* author_details.rating (author_details itself absent included) has       *)
(* rating 0, and one built from a raw object with a non-zero rating has    *)
(* that rating.                                                            *)
(***************************************************************************)
C9_Original ==
    (out.built /\ kind = "Review") =>
        /\ NestedRating(raw).t = "undefined"
           => ~out.thrown /\ SameVal(Get(out.val, "rating"), Num(0))
        /\ (NestedRating(raw).t = "number" /\ NestedRating(raw).v # 0)
           => ~out.thrown /\ SameVal(Get(out.val, "rating"), NestedRating(raw))

\* the field of the entity that holds a field of the raw object
EntityField(k) ==
    CASE k = "poster_path" -> "posterPath"
      [] k = "backdrop_path" -> "backdropPath"
      [] k = "original_title" -> "originalTitle"
      [] k = "release_date" -> "releaseDate"
      [] k = "genre_ids" -> "genreIds"
      [] k = "vote_average" -> "voteAverage"
      [] k = "vote_count" -> "voteCount"
      [] k = "original_name" -> "originalName"
      [] k = "first_air_date" -> "firstAirDate"
      [] k = "known_for" -> "knownFor"
      [] k = "known_for_department" -> "knownForDepartment"
      [] k = "created_at" -> "created"
      [] k = "updated_at" -> "updated"
      [] OTHER -> k

(***************************************************************************)
(* C10, as claimed: building a Movie, TVShow, Person or Review from a raw  *)
(* object that lacks any of its optional fields (the nested                *)
(* author_details of a Review included) never fails, and a field absent    *)
(* from the raw object is undefined in the entity.                         *)
(***************************************************************************)
C10_Original ==
    (out.built /\ kind \in {"Movie", "TVShow", "Person", "Review"}) =>
        /\ ~out.thrown
        /\ \A k \in (FieldsOf(kind) \ {"media_type", "author_details"}) \ DOMAIN raw.v :
               Get(out.val, EntityField(k)).t = "undefined"

IsMovieDetails(rq) == rq.group = "movie" /\ Len(rq.path) = 1 /\ IsDigits(rq.path[1])

\* the fields of the upstream movie object that the response carries
MovieRawFields ==
    {"id", "title", "original_title", "release_date", "genre_ids", "vote_average",
     "vote_count", "popularity", "overview", "poster_path", "backdrop_path"}

(***************************************************************************)
(* C11: a movie-details request whose upstream call succeeds with an       *)
(* object r is answered 200 with an entity whose mediaType is "Movie" and  *)
(* whose id, title, originalTitle, releaseDate, genreIds, voteAverage,     *)
(* voteCount, popularity, overview, posterPath and backdropPath are the    *)
(* values of the corresponding fields of r, unaltered, and nothing else.   *)
(***************************************************************************)
C11_MovieDetailsFields ==
    \A r \in Slots :
        (IsMovieDetails(req[r]) /\ call[r].state = "resolved" /\ call[r].data.t = "object")
        => /\ resp[r].sent /\ resp[r].status = 200
           /\ resp[r].body.t = "object"
           /\ SameVal(Get(resp[r].body, "mediaType"), Str(<<"Movie">>))
           /\ \A k \in MovieRawFields :
                  Get(resp[r].body, EntityField(k)) = Get(call[r].data, k)
           /\ DOMAIN resp[r].body.v \subseteq
                  {"mediaType"} \cup {EntityField(k) : k \in MovieRawFields}

C11_Witness ==
    \E r \in Slots :
        /\ IsMovieDetails(req[r]) /\ call[r].state = "resolved"
        /\ resp[r].status = 200
        /\ call[r].data.t = "object"
        /\ MovieRawFields \subseteq DOMAIN call[r].data.v
        /\ SameVal(Get(resp[r].body, "title"), Str(<<"title">>))
        /\ SameVal(Get(resp[r].body, "genreIds"), Arr(<<Num(18), Num(53)>>))
        /\ SameVal(Get(resp[r].body, "posterPath"), Null)

(***************************************************************************)
(* C12: a person search with an empty or missing query is not rejected:    *)
(* exactly one upstream call is made for it, a failure of that call is     *)
(* answered 500 with {error}, a success with the Person built from every   *)
(* upstream result, in order, and the answer is never 400.                 *)
(***************************************************************************)
C12_PersonSearchForwardsEmptyQuery ==
    \A r \in Slots :
        (pc[r] # "idle" /\ IsPersonSearch(req[r]) /\ QueryAbsentOrEmpty(req[r].query))
        => /\ call[r].issued /\ ncalls[r] = 1
           /\ resp[r].sent => resp[r].status \in {200, 500}
           /\ call[r].state \in AllFailures
              => resp[r].status = 500 /\ IsErrorBody(resp[r].body)
           /\ (call[r].state = "resolved" /\ resp[r].status = 500)
              => IsErrorBody(resp[r].body)
           /\ (call[r].state = "resolved" /\ resp[r].status = 200)
              => Elementwise("Person", Get(call[r].data, "results"), resp[r].body)
           /\ (/\ call[r].state = "resolved"
               /\ Get(call[r].data, "results").t = "array"
               /\ \A i \in 1..Len(Get(call[r].data, "results").v) :
                      Get(call[r].data, "results").v[i].t = "object")
              => resp[r].status = 200

C12_Witness ==
    \E r \in Slots :
        /\ IsPersonSearch(req[r]) /\ req[r].query.t = "undefined"
        /\ ncalls[r] = 1 /\ call[r].state = "resolved" /\ resp[r].status = 200
        /\ resp[r].body.t = "array" /\ Len(resp[r].body.v) = 2
        /\ SameVal(Get(resp[r].body.v[1], "mediaType"), Str(<<"Person">>))

(***************************************************************************)
(* C13: the credential check (/auth/validate) makes exactly one upstream   *)
(* call, which carries the API key; it answers 200 {message: 'API Key is   *)
(* valid'} exactly when that call succeeds and 401 {error: 'Invalid API    *)
(* Key'} on every failure of it, and never 500.                            *)
(***************************************************************************)
C13_CredentialCheckIsBinary ==
    \A r \in Slots :
        (pc[r] # "idle" /\ IsCredentialCheck(req[r]))
        => /\ call[r].issued /\ ncalls[r] = 1
           /\ "api_key" \in DOMAIN call[r].params
           /\ SameVal(call[r].params["api_key"], Str(env.TMDB_API_KEY))
           /\ resp[r].sent => resp[r].status \in {200, 401}
           /\ (resp[r].sent /\ resp[r].status = 200) <=> call[r].state = "resolved"
           /\ (resp[r].sent /\ resp[r].status = 401) <=> call[r].state \in AllFailures
           /\ call[r].state = "resolved"
              => resp[r].body = Obj([message |-> Str(<<"API Key is valid">>)])
           /\ call[r].state \in AllFailures
              => resp[r].body = Obj([error |-> Str(<<"Invalid API Key">>)])

C13_Witness ==
    \E r \in Slots :
        /\ IsCredentialCheck(req[r]) /\ call[r].state = "http5xx"
        /\ resp[r].status = 401 /\ ncalls[r] = 1

(***************************************************************************)
(* C14: every upstream call issued for a handler carries the parameter     *)
(* api_key with the configured API key, and the parameter the handler      *)
(* passes (query) is sent alongside it.                                    *)
(***************************************************************************)
C14_ApiKeyOnEveryCall ==
    \A r \in Slots :
        call[r].issued
        => /\ "api_key" \in DOMAIN call[r].params
           /\ SameVal(call[r].params["api_key"], Str(env.TMDB_API_KEY))
           /\ (IsMovieSearch(req[r]) \/ IsGenericSearch(req[r]))
              => /\ DOMAIN call[r].params = {"api_key", "query"}
                 /\ SameVal(call[r].params["query"], req[r].query)

C14_Witness ==
    \E r \in Slots :
        /\ IsGenericSearch(req[r]) /\ call[r].issued
        /\ SameVal(call[r].params["query"], Str(<<"a">>))
        /\ SameVal(call[r].params["api_key"], Str(<<"KEY">>))

StartsWithSlash(e) == Len(e) > 0 /\ e[1] = "/"

\* a base URL with one trailing '/' removed, if it has one
WithoutTrailingSlash(b) ==
    IF Len(b) > 0 /\ b[Len(b)] = "/" THEN SubSeq(b, 1, Len(b) - 1) ELSE b

(***************************************************************************)
(* C15: for an endpoint e that does not start with '/', fetchFromTmdb(e)   *)
(* requests the URL that fetchFromTmdb('/' + e) requests, and that URL is  *)
(* the base URL without its trailing '/', then one '/', then e; an         *)
(* endpoint that starts with '/' is appended to the trimmed base as it is. *)
(***************************************************************************)
C15_EndpointNormalised ==
    (out.built /\ kind = "fetch") =>
        /\ ~out.thrown /\ out.val.t = "string"
        /\ ~StartsWithSlash(raw.v)
           => /\ out.val.v = fetchFromTmdb(env, <<"/">> \o raw.v, <<>>).url
              /\ out.val.v = WithoutTrailingSlash(env.TMDB_BASE_URL) \o <<"/">> \o raw.v
        /\ StartsWithSlash(raw.v)
           => out.val.v = WithoutTrailingSlash(env.TMDB_BASE_URL) \o raw.v

C15_Witness ==
    /\ out.built /\ kind = "fetch"
    /\ raw = Str(<<"a", "/", "a">>)
    /\ env.TMDB_BASE_URL = <<"h", "/">>
    /\ out.val.v = <<"h", "/", "a", "/", "a">>

\* a body that is not JSON reaches the handler as a string
MalformedBody(data) == data.t = "string"

\* the upstream call failed in one of the ways the claim lists
UpstreamFailed(r) ==
    \/ call[r].state \in AllFailures
    \/ call[r].state = "resolved" /\ MalformedBody(call[r].data)

\* the message of the handler's catch block for the request in slot r
HandlerMessage(r) == Expand(RouteOf(r).msg, route[r].params, req[r].query)

\* the symbols of a string value
SymbolsOf(x) == IF x.t = "string" THEN {x.v[i] : i \in 1..Len(x.v)} ELSE {}

(***************************************************************************)
(* C16, as claimed: whichever way the upstream call fails (network error,  *)
(* timeout, 4xx, 5xx, malformed body), the handler answers with status     *)
(* 500 and the error message that its route and the request determine;     *)
(* neither the kind of failure, nor the upstream body, nor the API key     *)
(* appears in the response.                                                *)
(***************************************************************************)
C16_Original ==
    \A r \in Slots :
        (pc[r] = "done" /\ call[r].issued /\ UpstreamFailed(r))
        => /\ resp[r].status = 500
           /\ resp[r].body = Obj([error |-> Str(HandlerMessage(r))])
           /\ SymbolsOf(resp[r].body.v.error) \cap
                (AllFailures \cup SymbolsOf(Str(env.TMDB_API_KEY))
                 \cup SymbolsOf(call[r].data)) = {}

(***************************************************************************)
(* C17, as claimed: in the TV, person and movie groups a request to an     *)
(* id-keyed endpoint (details or sub-resource) whose id is not one or      *)
(* more decimal digits is rejected before dispatch: it is answered         *)
(* without any upstream call being made for it.                            *)
(***************************************************************************)
C17_Original ==
    \A r \in Slots :
        (/\ pc[r] # "idle"
         /\ req[r].group \in {"tv", "person", "movie"}
         /\ HasNonNumericId(req[r]))
        => /\ ~call[r].issued /\ ncalls[r] = 0
           /\ pc[r] = "done" /\ resp[r].sent /\ resp[r].status \in {400, 404}

\* the TV paths the specification lists, with a digits-only id or a
\* non-empty query
TvClaimed(rq) ==
    /\ rq.group = "tv"
    /\ \/ rq.path \in LiteralPaths("tv") \ {<<<<"health">>>>}
       \/ rq.path = <<<<"search">>>> /\ ~QueryAbsentOrEmpty(rq.query)
       \/ /\ Len(rq.path) >= 1 /\ IsDigits(rq.path[1])
          /\ Tail(rq.path) \in SubResources("movie")

\* the TV paths the router serves, with a digits-only id or a non-empty query
TvServed(rq) ==
    /\ rq.group = "tv"
    /\ \/ rq.path \in LiteralPaths("tv") \ {<<<<"health">>>>}
       \/ IsTvSearch(rq) /\ ~QueryAbsentOrEmpty(rq.query)
       \/ IsIdKeyed(rq) /\ IsDigits(rq.path[1])

\* the upstream TV endpoint that corresponds to a TV path
TvUpstream(rq) ==
    IF rq.path = <<<<"search">>>> \/ IsTvSearch(rq)
    THEN <<"/", "search", "/", "tv", "?", "query", "=">>
         \o encodeURIComponent(TemplateString(rq.query))
    ELSE IF rq.path \in LiteralPaths("tv")
    THEN <<"/", "tv", "/">> \o rq.path[1]
    ELSE <<"/", "tv", "/">> \o rq.path[1]
         \o Flatten([i \in 1..(Len(rq.path) - 1) |-> <<"/">> \o rq.path[i + 1]])

\* an array none of whose elements is null or undefined
NonNullArray(x) == x.t = "array" /\ \A i \in 1..Len(x.v) : ~Nullish(x.v[i])

\* the upstream data can be read the way the handler of the TV path reads it
TvReadable(rq, data) ==
    /\ ~Nullish(data)
    /\ (Len(rq.path) = 2 /\ rq.path[2] = <<"credits">>)
       => NonNullArray(Get(data, "cast")) /\ NonNullArray(Get(data, "crew"))
    /\ (Len(rq.path) = 2 /\ rq.path[2] = <<"reviews">>)
       => /\ NonNullArray(Get(data, "results"))
          /\ \A i \in 1..Len(Get(data, "results").v) :
                 ~Nullish(Get(Get(data, "results").v[i], "author_details"))
    /\ \/ rq.path \in LiteralPaths("tv") \ {<<<<"latest">>>>}
       \/ IsTvSearch(rq)
       \/ Len(rq.path) = 2 /\ rq.path[2] \in {<<"recommendations">>, <<"similar">>}
       => NonNullArray(Get(data, "results"))

(***************************************************************************)
(* C18, as claimed: each TV path of the list /popular, /top_rated,         *)
(* /search?query=, /:series_id, its sub-resources images, credits,         *)
(* external_ids, recommendations, reviews, similar, videos and             *)
(* watch/providers, /latest, /airing_today and /on_the_air, with a         *)
(* digits-only id or a non-empty query, is routed to a handler that calls  *)
(* the corresponding upstream TV endpoint and answers 200 when that call   *)
(* succeeds.                                                               *)
(***************************************************************************)
C18_Original ==
    \A r \in Slots :
        (pc[r] # "idle" /\ TvClaimed(req[r]))
        => /\ call[r].issued
           /\ call[r].url = WithoutTrailingSlash(env.TMDB_BASE_URL) \o TvUpstream(req[r])
           /\ call[r].state = "resolved" => resp[r].status = 200

(***************************************************************************)
(* C18: the TV paths /popular, /latest, /airing_today, /on_the_air,        *)
(* /top_rated, /search/tv?query=, /:series_id and its sub-resources        *)
(* images, credits, recommendations, reviews, similar, videos and          *)
(* watch/providers, with a digits-only id or a non-empty query, are each   *)
(* routed to a handler that makes one call to the corresponding upstream   *)
(* TV endpoint; when the call succeeds the handler answers 200 if it can   *)
(* read the data and 500 {error} if reading it throws. The TV group has    *)
(* no /search (the path is taken for a series_id and answered 400) and no  *)
(* /:series_id/external_ids (no route, 404).                               *)
(***************************************************************************)
C18_TvEndpoints ==
    \A r \in Slots :
        /\ (pc[r] # "idle" /\ TvServed(req[r]))
           => /\ call[r].issued /\ ncalls[r] = 1
              /\ call[r].url
                   = WithoutTrailingSlash(env.TMDB_BASE_URL) \o TvUpstream(req[r])
              /\ (call[r].state = "resolved" /\ TvReadable(req[r], call[r].data))
                 => resp[r].status = 200 /\ ~IsErrorBody(resp[r].body)
              /\ (call[r].state = "resolved" /\ ~TvReadable(req[r], call[r].data))
                 => resp[r].status = 500 /\ IsErrorBody(resp[r].body)
        /\ (pc[r] # "idle" /\ req[r].group = "tv" /\ req[r].path = <<<<"search">>>>)
           => Rejected400(r)
        /\ (/\ pc[r] # "idle" /\ req[r].group = "tv"
            /\ req[r].path = <<<<"7">>, <<"external_ids">>>>)
           => /\ ~call[r].issued /\ ncalls[r] = 0
              /\ pc[r] = "done" /\ resp[r].status = 404

C18_Witness ==
    \E r \in Slots :
        /\ req[r].group = "tv" /\ req[r].path = <<<<"7">>, <<"similar">>>>
        /\ call[r].state = "resolved" /\ resp[r].status = 200
        /\ call[r].url = <<"https://api.themoviedb.org/3", "/", "tv", "/", "7",
                           "/", "similar">>
        /\ resp[r].body.t = "array" /\ Len(resp[r].body.v) = 2

(***************************************************************************)
(* C19, as claimed: a successful multi-search response is an object whose  *)
(* property `results` holds the array of the normalized items, one per     *)
(* upstream result, as the endpoint's API documentation declares.          *)
(***************************************************************************)
C19_Original ==
    \A r \in Slots :
        (/\ IsMultiSearch(req[r]) /\ call[r].state = "resolved"
         /\ resp[r].sent /\ resp[r].status = 200)
        => /\ resp[r].body.t = "object"
           /\ "results" \in DOMAIN resp[r].body.v
           /\ LET ups == Get(call[r].data, "results")
                  outs == Get(resp[r].body, "results")
              IN /\ ups.t = "array" /\ outs.t = "array"
                 /\ Len(outs.v) = Len(ups.v)
                 /\ \A i \in 1..Len(ups.v) : DispatchedAs(ups.v[i], outs.v[i])

\* a request for a payload no entity class models: images, videos, watch
\* providers, external ids
IsNonModeled(rq) ==
    /\ rq.group \in {"movie", "tv", "person"}
    /\ Len(rq.path) >= 2
    /\ Tail(rq.path) \in {<<<<"images">>>>, <<<<"videos">>>>, <<<<"external_ids">>>>,
                          <<<<"watch">>, <<"providers">>>>}

\* the endpoints whose handler answers with the upstream payload itself
AnswersPayload(rq) ==
    /\ rq.group \in {"movie", "person"}
    /\ Tail(rq.path) \in {<<<<"images">>>>, <<<<"external_ids">>>>}

\* the property of the payload the other handlers answer with
SelectedProperty(rq) ==
    IF rq.group = "tv" /\ Tail(rq.path) = <<<<"images">>>> THEN "backdrops" ELSE "results"

(***************************************************************************)
(* C20, as claimed: for the payloads no entity class models (images,       *)
(* videos, watch providers, external ids) the handler answers with the     *)
(* upstream payload as received, nothing renamed, removed or selected, in  *)
(* the movie, TV and person groups alike.                                  *)
(***************************************************************************)
C20_Original ==
    \A r \in Slots :
        (IsNonModeled(req[r]) /\ call[r].state = "resolved")
        => resp[r].status = 200 /\ resp[r].body = call[r].data

(***************************************************************************)
(* C20: for the payloads no entity class models, no handler builds an      *)
(* entity. The images and external_ids handlers of the movie and person    *)
(* groups answer 200 with the upstream payload as received. The videos     *)
(* and watch/providers handlers of the movie and TV groups answer with     *)
(* the payload's property `results` only, and the TV images handler with   *)
(* its property `backdrops` only, so that /:id/images does not behave the  *)
(* same in the TV group as in the other two; these handlers answer 500     *)
(* {error} when the payload is null.                                       *)
(***************************************************************************)
C20_PassThroughOrSelect ==
    \A r \in Slots :
        (IsNonModeled(req[r]) /\ call[r].state = "resolved")
        => IF AnswersPayload(req[r])
           THEN resp[r].status = 200 /\ resp[r].body = call[r].data
           ELSE IF Nullish(call[r].data)
           THEN resp[r].status = 500 /\ IsErrorBody(resp[r].body)
           ELSE /\ resp[r].status = 200
                /\ resp[r].body = Get(call[r].data, SelectedProperty(req[r]))

C20_Witness ==
    \E r \in Slots :
        /\ req[r].group = "tv" /\ req[r].path = <<<<"7">>, <<"images">>>>
        /\ call[r].state = "resolved"
        /\ call[r].data.t = "object" /\ "posters" \in DOMAIN call[r].data.v
        /\ resp[r].status = 200
        /\ resp[r].body = Arr(<<Obj([file_path |-> Str(<<"/b.jpg">>)])>>)

\* the complete result of a list or credits handler for the upstream data
CompleteResult(rt, data, body) ==
    IF rt.shape = "list"
    THEN Elementwise(rt.cls, Get(data, rt.key), body)
    ELSE /\ body.t = "object" /\ DOMAIN body.v = {"cast", "crew"}
         /\ Elementwise("Person", Get(data, "cast"), body.v.cast)
         /\ Elementwise("Person", Get(data, "crew"), body.v.crew)

(***************************************************************************)
(* C21: a request receives at most one response, and the response of a     *)
(* list or credits handler is either the complete result (every upstream   *)
(* element normalized; for credits both cast and crew) with status 200,    *)
(* or the 500 {error} body and nothing else: never a prefix of the list,   *)
(* never one of cast and crew without the other.                           *)
(***************************************************************************)
C21_AllOrNothing ==
    \A r \in Slots :
        /\ nresp[r] <= 1
        /\ resp[r].sent <=> nresp[r] = 1
        /\ (resp[r].sent /\ call[r].issued /\ RouteOf(r).shape \in {"list", "credits"})
           => \/ /\ resp[r].status = 200 /\ call[r].state = "resolved"
                 /\ CompleteResult(RouteOf(r), call[r].data, resp[r].body)
              \/ /\ resp[r].status = 500 /\ IsErrorBody(resp[r].body)

C21_Witness ==
    \E r \in Slots :
        /\ req[r].group = "movie" /\ req[r].path = <<<<"7">>, <<"credits">>>>
        /\ call[r].state = "resolved" /\ call[r].data.t = "object"
        /\ NonNullArray(Get(call[r].data, "cast")) /\ Len(Get(call[r].data, "cast").v) = 1
        /\ Get(call[r].data, "crew") = Arr(<<Null>>)
        /\ nresp[r] = 1 /\ resp[r].status = 500 /\ IsErrorBody(resp[r].body)

\* one step of the request in slot r keeps to a single upstream call: no
\* call is added once one was issued, and a failed call is followed by
\* nothing but the error response it caused
SingleCall(r) ==
    /\ ncalls[r] <= 1 /\ ncalls'[r] <= 1
    /\ (pc[r] # "idle" /\ pc'[r] # "idle") => ncalls'[r] >= ncalls[r]
    /\ (call[r].issued /\ pc'[r] # "idle")
       => /\ ncalls'[r] = ncalls[r]
          /\ call'[r].url = call[r].url /\ call'[r].params = call[r].params
    /\ call'[r].state \in AllFailures
       => /\ ncalls'[r] = 1 /\ pc'[r] = "done"
          /\ resp'[r].sent /\ nresp'[r] = 1 /\ IsErrorBody(resp'[r].body)
          /\ resp'[r].status = RouteOf(r).failStatus
    /\ call[r].state \in AllFailures
       => \/ call'[r] = call[r] /\ resp'[r] = resp[r] /\ pc'[r] = pc[r]
          \/ pc'[r] = "idle" /\ call'[r] = NoCall

(***************************************************************************)
(* C22: a request causes at most one upstream call over its lifetime;      *)
(* once that call has failed no further call is issued for the request     *)
(* (no retry), and the error response is the one that follows the single   *)
(* failure.                                                                *)
(***************************************************************************)
C22_NoRetry == [][\A r \in Slots : SingleCall(r)]_vars

C22_Witness ==
    \E r \in Slots :
        /\ req[r].group = "person" /\ req[r].path = <<<<"popular">>>>
        /\ call[r].state = "timeout" /\ ncalls[r] = 1
        /\ pc[r] = "done" /\ resp[r].status = 500 /\ IsErrorBody(resp[r].body)

\* everything the server holds for the request in slot r
SlotState(r) == <<pc[r], req[r], route[r], call[r], ncalls[r], resp[r], nresp[r]>>

\* the response to request rq handled alone, its upstream call (if it makes
\* one) ending in `state` with `data`
HandledAlone(rq, state, data) ==
    IF Matched(rq) = 0
    THEN [sent |-> TRUE, status |-> 404, body |-> Str(<<"Cannot GET">>)]
    ELSE IF InvalidSeriesId(rq)
    THEN Response(400, ErrorBody(<<"Invalid series_id format. It must be a number.">>))
    ELSE IF QueryMissing(rq)
    THEN Response(400, ErrorBody(<<"Query parameter is required">>))
    ELSE IF ~RouteFor(rq).fetch
    THEN Response(200, Obj([message |-> Str(RouteFor(rq).msg)]))
    ELSE IF state = "resolved"
    THEN OnResolved(RouteFor(rq), IdOf(rq), rq.query, data)
    ELSE Caught(RouteFor(rq), IdOf(rq), rq.query)

\* the response in slot r depends on its own request and reply only
OwnResponse(r) ==
    resp[r].sent
    => /\ resp[r] = HandledAlone(req[r], call[r].state, call[r].data)
       /\ \A s \in Slots :
            (/\ resp[s].sent /\ req[s] = req[r]
             /\ call[s].state = call[r].state /\ call[s].data = call[r].data)
            => resp[s] = resp[r]

\* a step taken for one request leaves every other request as it was
NoInterference ==
    /\ env' = env
    /\ \A r, s \in Slots :
         (r # s /\ SlotState(r)' # SlotState(r)) => SlotState(s)' = SlotState(s)

(***************************************************************************)
(* C23: requests are handled independently. Whatever requests are in       *)
(* flight together and however their upstream calls interleave, a step     *)
(* taken for one request changes nothing of another, and the response to   *)
(* each request is determined by that request and the reply to its own     *)
(* upstream call: it is the response the request gets when handled alone.  *)
(***************************************************************************)
C23_Independence == [](\A r \in Slots : OwnResponse(r)) /\ [][NoInterference]_vars

C23_Witness ==
    /\ pc[1] = "done" /\ pc[2] = "done" /\ req[1] = req[2]
    /\ req[1].group = "tv" /\ req[1].path = <<<<"7">>>>
    /\ call[1].state = "resolved" /\ call[2].state = "resolved"
    /\ "cast" \in DOMAIN call[1].data.v /\ "results" \in DOMAIN call[2].data.v
    /\ resp[1].status = 200 /\ resp[2].status = 200
    /\ SameVal(Get(resp[1].body, "id"), Num(7))
    /\ Get(resp[2].body, "id").t = "undefined"

\* the request in slot r has its one response
Answered(r) == pc[r] = "done" /\ resp[r].sent /\ nresp[r] = 1

(***************************************************************************)
(* C24: when every upstream call eventually settles, with data or with a   *)
(* failure, every request waiting on its upstream call eventually has      *)
(* exactly one response; a request that makes no upstream call (health,    *)
(* failed validation, no route) has its response at once, without waiting  *)
(* on anything.                                                            *)
(***************************************************************************)
C24_EventuallyAnswered ==
    /\ [](\A r \in Slots :
            /\ nresp[r] <= 1
            /\ (pc[r] # "idle" /\ ~call[r].issued) => Answered(r))
    /\ \A r \in Slots :
         (pc[r] = "waiting") ~> (Answered(r) /\ call[r].state # "pending")

C24_Witness ==
    \E r, s \in Slots :
        /\ r # s /\ pc[s] = "waiting"
        /\ Answered(r) /\ req[r].group = "tv" /\ req[r].path = <<<<"7", "x">>>>
        /\ resp[r].status = 400 /\ ~call[r].issued

\* the upstream call of the request in slot r has settled
Settled(r) == call[r].state = "resolved" \/ call[r].state \in AllFailures

\* nothing is sent while the call of slot r is pending, and the wait ends
\* only when the call settles
WaitsForUpstream(r) ==
    /\ pc[r] = "waiting" <=> (call[r].issued /\ call[r].state = "pending")
    /\ pc[r] = "waiting" => ~resp[r].sent /\ nresp[r] = 0
    /\ (call[r].issued /\ resp[r].sent) => Settled(r)
    /\ (pc[r] = "waiting" /\ pc'[r] # "waiting")
       => /\ call'[r].state = "resolved" \/ call'[r].state \in AllFailures
          /\ resp'[r].sent

\* while slot r waits, a free slot takes requests of every kind
OthersServed(r) ==
    \A s \in Slots :
        (pc[r] = "waiting" /\ pc[s] = "idle")
        => /\ ENABLED HealthCheck(s)
           /\ ENABLED CallUpstream(s)
           /\ ENABLED validateSeriesId(s)

(***************************************************************************)
(* C25: no response is sent for a request while its upstream call is       *)
(* pending. Nothing but the settling of the call ends the wait (there is   *)
(* no timeout), so a request whose call never settles never has a          *)
(* response; other requests are served meanwhile.                          *)
(***************************************************************************)
C25_NoResponseWhilePending ==
    /\ [][\A r \in Slots : WaitsForUpstream(r)]_vars
    /\ [](\A r \in Slots : OthersServed(r))

C25_Witness ==
    /\ pc[1] = "waiting" /\ call[1].state = "pending" /\ ~resp[1].sent
    /\ req[1].group = "tv" /\ req[1].path = <<<<"7">>>>
    /\ pc[2] = "done" /\ req[2].group = "tv" /\ req[2].path = <<<<"7">>>>
    /\ call[2].state = "resolved" /\ resp[2].status = 200

\* a raw item of a media type the multi-search maps to no class
IsFallbackItem(item) ==
    /\ item.t = "object"
    /\ \A m \in {"movie", "tv", "person"} : ~SameVal(Get(item, "media_type"), Str(<<m>>))

(***************************************************************************)
(* C26: normalization is pure. Building a Movie, TVShow, Person or Review, *)
(* and the multi-search dispatch, leave the raw upstream object as it was  *)
(* (no field added, removed or modified) and make no upstream call; for    *)
(* an item of another media type the dispatch returns the raw item itself. *)
(***************************************************************************)
C26_NormalizationIsPure ==
    /\ [][/\ raw' = raw /\ kind' = kind
          /\ call' = call /\ ncalls' = ncalls /\ resp' = resp /\ nresp' = nresp
          /\ out'.built]_vars
    /\ []((out.built /\ kind = "multi" /\ IsFallbackItem(raw))
          => ~out.thrown /\ out.val = raw)

C26_Witness ==
    /\ kind = "multi" /\ out.built /\ ~out.thrown
    /\ raw.t = "object" /\ DOMAIN raw.v = {"id", "name", "media_type"}
    /\ SameVal(Get(raw, "media_type"), Str(<<"collection">>))
    /\ out.val = raw

\* the upstream data lacks what a mapping handler reads: the array it maps
\* is missing or holds a null element, or a review has no author_details
LacksStructure(rt, data) ==
    CASE rt.shape = "list" ->
           \/ ~NonNullArray(Get(data, rt.key))
           \/ /\ rt.cls = "Review"
              /\ \E i \in 1..Len(Get(data, rt.key).v) :
                     Nullish(Get(Get(data, rt.key).v[i], "author_details"))
      [] rt.shape = "credits" ->
           ~NonNullArray(Get(data, "cast")) \/ ~NonNullArray(Get(data, "crew"))
      [] rt.shape = "multi" -> ~NonNullArray(Get(data, "results"))
      [] OTHER -> FALSE

IsSearch(rq) ==
    IsMovieSearch(rq) \/ IsTvSearch(rq) \/ IsPersonSearch(rq) \/ IsGenericSearch(rq)

\* the upstream path of a search endpoint
SearchPath(rq) ==
    <<"/", "search", "/">> \o
    (IF rq.group = "tmdb" THEN rq.path[2] ELSE <<rq.group>>)

\* the positions of symbol c in a URL
PositionsOf(url, c) == {i \in 1..Len(url) : url[i] = c}

\* the part of a URL before its query string
PathOfUrl(url) ==
    IF PositionsOf(url, "?") = {} THEN url
    ELSE SubSeq(url, 1, (CHOOSE i \in PositionsOf(url, "?") :
                            \A j \in PositionsOf(url, "?") : i <= j) - 1)

\* the names of the parameters in the query string of a URL: what follows
\* the first '?' and every '&'
ParamsInUrl(url) ==
    {url[i] : i \in {j \in 2..Len(url) :
                       \/ url[j - 1] = "&"
                       \/ url[j - 1] = "?" /\ Len(PathOfUrl(url)) = j - 2}}

(***************************************************************************)
(* C28, as claimed: on every search endpoint the client's query reaches    *)
(* upstream only as the value of the one parameter `query`. Whatever       *)
(* characters it holds, the upstream request has the path of the search    *)
(* endpoint and exactly the parameters query and api_key, and nothing of   *)
(* the URL is cut off as a fragment.                                       *)
(***************************************************************************)
C28_Original ==
    \A r \in Slots :
        (IsSearch(req[r]) /\ call[r].issued)
        => /\ PathOfUrl(call[r].url)
                = WithoutTrailingSlash(env.TMDB_BASE_URL) \o SearchPath(req[r])
           /\ ParamsInUrl(call[r].url) \cup DOMAIN call[r].params = {"query", "api_key"}
           /\ ParamsInUrl(call[r].url) \cap DOMAIN call[r].params = {}
           /\ PositionsOf(call[r].url, "#") = {}

\* the literal paths the claim lists, for the groups the specification
\* gives them to (the TV group with /search, as the movie group)
ClaimedLiterals(group) ==
    LiteralPaths(group) \cup (IF group = "tv" THEN {<<<<"search">>>>} ELSE {})

\* the route pattern made of the very segments of a path
LiteralPattern(path) == [i \in 1..Len(path) |-> Lit(path[i][1])]

\* the request in slot r is handled by the route registered for its literal
\* path, and not answered by the series_id validation
OwnHandler(r) ==
    /\ route[r].idx # 0
    /\ RouteOf(r).path = LiteralPattern(req[r].path)
    /\ ~RouteOf(r).validate
    /\ ~(resp[r].sent /\ resp[r].status = 400
         /\ resp[r].body
              = Obj([error |-> Str(<<"Invalid series_id format. It must be a number.">>)]))

\* the movie routes registered after the first module.exports statement
AfterFirstExport ==
    {"movie.similar", "movie.videos", "movie.watch_providers", "movie.search",
     "movie.popular", "movie.now_playing", "movie.top_rated", "movie.upcoming",
     "movie.details"}

\* the movie route a request path is meant for
MovieRouteFor(path) ==
    CASE path = <<<<"search">>>> -> "movie.search"
      [] path = <<<<"popular">>>> -> "movie.popular"
      [] path = <<<<"now_playing">>>> -> "movie.now_playing"
      [] path = <<<<"top_rated">>>> -> "movie.top_rated"
      [] path = <<<<"upcoming">>>> -> "movie.upcoming"
      [] Len(path) = 2 /\ path[2] = <<"similar">> -> "movie.similar"
      [] Len(path) = 2 /\ path[2] = <<"videos">> -> "movie.videos"
      [] Len(path) = 3 -> "movie.watch_providers"
      [] OTHER -> "movie.details"

(***************************************************************************)
(* C29, as claimed: in every group a request to one of the literal paths   *)
(* /health, /popular, /latest, /airing_today, /on_the_air, /top_rated,     *)
(* /now_playing, /upcoming and /search is handled by the handler of that   *)
(* path and never by the id-keyed route, so that in the TV group it never  *)
(* gets the 400 'Invalid series_id format' response.                       *)
(***************************************************************************)
C29_Original ==
    \A r \in Slots :
        (pc[r] # "idle" /\ req[r].path \in ClaimedLiterals(req[r].group))
        => OwnHandler(r)

(***************************************************************************)
(* C29: a request to a literal path that its group registers (/health in   *)
(* every group; /popular, /now_playing, /top_rated, /upcoming and /search  *)
(* for movies; /popular, /latest, /airing_today, /on_the_air, /top_rated   *)
(* and /search/tv for TV; /popular and /search for persons) is handled by  *)
(* the handler of that path and never by the id-keyed route. The TV group  *)
(* registers no /search: that path is taken by /:series_id and answered    *)
(* 400 'Invalid series_id format'. Every movie route registered after the  *)
(* first module.exports statement is still reached by its requests.        *)
(***************************************************************************)
C29_LiteralsFirst ==
    \A r \in Slots :
        /\ (/\ pc[r] # "idle"
            /\ req[r].path \in LiteralPaths(req[r].group) \/ IsTvSearch(req[r]))
           => OwnHandler(r)
        /\ (pc[r] # "idle" /\ req[r].group = "tv" /\ req[r].path = <<<<"search">>>>)
           => /\ route[r].id = "tv.details" /\ ~OwnHandler(r)
              /\ resp[r].status = 400
        /\ (/\ pc[r] # "idle" /\ req[r].group = "movie"
            /\ \/ req[r].path \in LiteralPaths("movie") \ {<<<<"health">>>>}
               \/ IsMovieDetails(req[r])
               \/ /\ IsIdKeyed(req[r])
                  /\ Tail(req[r].path) \in {<<<<"similar">>>>, <<<<"videos">>>>,
                                            <<<<"watch">>, <<"providers">>>>})
           => /\ route[r].id \in AfterFirstExport
              /\ route[r].id = MovieRouteFor(req[r].path)
              /\ call[r].issued \/ resp[r].status = 400

C29_Witness ==
    \E r \in Slots :
        /\ req[r].group = "tv" /\ req[r].path = <<<<"popular">>>>
        /\ route[r].id = "tv.popular" /\ call[r].state = "resolved"
        /\ resp[r].status = 200 /\ resp[r].body.t = "array"

\* a string of digits without its leading zeros
RECURSIVE StripZeros(_)
StripZeros(s) == IF Len(s) > 1 /\ s[1] = "0" THEN StripZeros(Tail(s)) ELSE s

\* a request to the details endpoint of a group, with a digits-only id
IsDetails(rq, group) == rq.group = group /\ Len(rq.path) = 1 /\ IsDigits(rq.path[1])

(***************************************************************************)
(* C30: the movie details handler forwards the numeric value of the id:    *)
(* ids that differ only by leading zeros (/007 and /7) give the same       *)
(* upstream path /movie/7. The TV and person details handlers forward the  *)
(* id as text (/tv/007, /person/007).                                      *)
(***************************************************************************)
C30_MovieIdIsNumeric ==
    \A r \in Slots :
        call[r].issued =>
            LET base == WithoutTrailingSlash(env.TMDB_BASE_URL)
                id == req[r].path[1]
            IN /\ IsDetails(req[r], "movie")
                  => call[r].url = base \o <<"/", "movie", "/">> \o StripZeros(id)
               /\ IsDetails(req[r], "tv")
                  => call[r].url = base \o <<"/", "tv", "/">> \o id
               /\ IsDetails(req[r], "person")
                  => call[r].url = base \o <<"/", "person", "/">> \o id

C30_Witness ==
    \E r \in Slots :
        /\ IsDetails(req[r], "movie") /\ req[r].path[1] = <<"0", "0", "7">>
        /\ call[r].issued
        /\ call[r].url = <<"https://api.themoviedb.org/3", "/", "movie", "/", "7">>

====
